---- MODULE Spec2Model ----
(***************************************************************************)
(* A model of the mini DOM of src/my-mini-dom.js: the node tree with its   *)
(* mutation operations (class Node) and the three-phase event dispatch of  *)
(* class EventTarget over Event objects.                                   *)
(*                                                                         *)
(* Objects are heap cells.  Nodes are the numbers 1..NumNodes; a node that *)
(* has not been constructed yet has nodeType NotConstructed.  JavaScript's null is     *)
(* Null, array indexes are 0-based as in the source, and indexOf's -1 is   *)
(* kept.  A thrown Error is the err field of a call's outcome.             *)
(***************************************************************************)
EXTENDS Integers, Sequences, FiniteSets, TLC

\* ------------------------------------------------------------------ bounds
NumNodes == 3
MaxRegs == 3
MaxCalls == 1
OnceRegs == 2
OnceCalls == 2
AddRegs == 2
AddCalls == 2
RemoveRegs == 3
CloneCells == 6
QueryCells == 4
AttrCells == 1
PathCalls == 1
ReuseRegs == 2
ReuseCalls == 2
NestedRegs == 3
UnlistenRegs == 3
UnlistenCalls == 2
MutateRegs == 3
ScopeRegs == 2
DocumentCells == 4
InheritRegs == 2
InheritCalls == 1
MaxRemovals == 1
MaxDamage == 1

\* --------------------------------------------------------------- constants
Null == 0
Undefined == -1
NoError == "none"

NONE == 0
CAPTURING_PHASE == 1
AT_TARGET == 2
BUBBLING_PHASE == 3

ELEMENT_NODE == 1
TEXT_NODE == 3
DOCUMENT_NODE == 9
NotConstructed == 0

Nodes == 1..NumNodes
NumElements == NumNodes - 1
TextValues == {"", "x"}
Types == {"click"}
AttributeNames == {"id", "title"}
AttributeValues == {"a"}

VARIABLES
    nodeType,     \* nodeType[n]: Node.nodeType, NotConstructed before `new`
    parentNode,   \* parentNode[n]: Node.parentNode (a node or Null)
    childNodes,   \* childNodes[n]: Node.childNodes, an array of nodes
    data,         \* data[n]: Text.data
    elem,         \* elem[n]: Element.tagName, .attributes (a Map), .id and .className
    last,         \* the latest method call on a node: its name, the Error thrown, the value returned
    listeners,    \* listeners[n]: EventTarget._listeners, from event types to arrays
    events,       \* the Event objects constructed so far, in construction order
    stack,        \* the dispatchEvent calls in progress, innermost last
    registered,   \* registered[n]: every registration addEventListener made on n, in order
    removals,     \* the program's removeEventListener calls: arguments, _listeners before and after
    log,          \* every listener invocation so far, in order
    returned      \* each finished dispatchEvent call: its value and the event as it left it

treeVars == <<nodeType, parentNode, childNodes, data, elem, last>>
eventVars == <<listeners, registered, removals, events, stack, log, returned>>
vars == <<nodeType, parentNode, childNodes, data, elem, last,
          listeners, registered, events, stack, log, returned>>

Constructed == {n \in Nodes : nodeType[n] # NotConstructed}

\* ------------------------------------------------------- JavaScript arrays
Range(s) == {s[i] : i \in 1..Len(s)}

Count(s, x) == Cardinality({i \in 1..Len(s) : s[i] = x})

\* Array.prototype.indexOf: the 0-based index of the first occurrence, or -1.
IndexOf(s, x) ==
    IF \E i \in 1..Len(s) : s[i] = x
    THEN (CHOOSE i \in 1..Len(s) : s[i] = x /\ \A j \in 1..(i - 1) : s[j] # x) - 1
    ELSE -1

\* arr.splice(index, 1)
SpliceRemove(s, index) == SubSeq(s, 1, index) \o SubSeq(s, index + 2, Len(s))

\* arr.splice(index, 0, x): a start beyond the end is clamped to the length.
SpliceInsert(s, index, x) ==
    LET k == IF index > Len(s) THEN Len(s) ELSE index
    IN SubSeq(s, 1, k) \o <<x>> \o SubSeq(s, k + 1, Len(s))

\* arr[index] = x: an index at or beyond the length grows the array.
AssignAt(s, index, x) ==
    IF index < Len(s)
    THEN [s EXCEPT ![index + 1] = x]
    ELSE s \o [j \in 1..(index - Len(s)) |-> Undefined] \o <<x>>

\* arr.push(x)
Push(s, x) == Append(s, x)

\* ---------------------------------------------------------- tree operations
\* A tree state t is [p |-> parentNode, c |-> childNodes]; an operation yields
\* an outcome [t, err, ret]: the tree after the call, the Error thrown
\* (NoError when it returned) and the value returned.
Tree == [p |-> parentNode, c |-> childNodes]

Returned(t, ret) == [t |-> t, err |-> NoError, ret |-> ret]

Thrown(t, msg) == [t |-> t, err |-> msg, ret |-> Undefined]

\* removeChild emptying the removed child's own childNodes as well.
removeChildDroppingSubtree(t, this, child) ==
    LET index == IndexOf(t.c[this], child)
    IN IF index = -1
       THEN Thrown(t, "Node not found")
       ELSE LET t1 == [t EXCEPT !.p[child] = Null]
                t2 == [t1 EXCEPT !.c[this] = SpliceRemove(t1.c[this], index)]
                t3 == [t2 EXCEPT !.c[child] = <<>>]
            IN Returned(t3, child)

\* Node.removeChild
removeChild(t, this, child) ==
    LET index == IndexOf(t.c[this], child)
    IN IF index = -1
       THEN Thrown(t, "Node not found")
       ELSE LET t1 == [t EXCEPT !.p[child] = Null]
                t2 == [t1 EXCEPT !.c[this] = SpliceRemove(t1.c[this], index)]
            IN Returned(t2, child)

\* if (node.parentNode) node.parentNode.removeChild(node)
detach(t, node) ==
    IF t.p[node] # Null THEN removeChild(t, t.p[node], node) ELSE Returned(t, node)

\* Node.appendChild
appendChild(t, this, child) ==
    LET d == detach(t, child)
    IN IF d.err # NoError
       THEN Thrown(d.t, d.err)
       ELSE LET t1 == [d.t EXCEPT !.p[child] = this]
                t2 == [t1 EXCEPT !.c[this] = Push(t1.c[this], child)]
            IN Returned(t2, child)

\* insertBefore detaching newNode before it looks the reference node up.
insertBeforeDetachFirst(t, this, newNode, referenceNode) ==
    IF referenceNode = Null
    THEN appendChild(t, this, newNode)
    ELSE LET d == detach(t, newNode)
             index == IndexOf(d.t.c[this], referenceNode)
         IN IF d.err # NoError
            THEN Thrown(d.t, d.err)
            ELSE IF index = -1
                 THEN Thrown(d.t, "Reference node not found")
                 ELSE LET t1 == [d.t EXCEPT !.p[newNode] = this]
                          t2 == [t1 EXCEPT !.c[this] =
                                     SpliceInsert(t1.c[this], index, newNode)]
                      IN Returned(t2, newNode)

\* Node.insertBefore
insertBefore(t, this, newNode, referenceNode) ==
    IF referenceNode = Null
    THEN appendChild(t, this, newNode)
    ELSE LET index == IndexOf(t.c[this], referenceNode)
         IN IF index = -1
            THEN Thrown(t, "Reference node not found")
            ELSE LET d == detach(t, newNode)
                 IN IF d.err # NoError
                    THEN Thrown(d.t, d.err)
                    ELSE LET t1 == [d.t EXCEPT !.p[newNode] = this]
                             t2 == [t1 EXCEPT !.c[this] =
                                        SpliceInsert(t1.c[this], index, newNode)]
                         IN Returned(t2, newNode)

\* Node.replaceChild
replaceChild(t, this, newChild, oldChild) ==
    LET index == IndexOf(t.c[this], oldChild)
    IN IF index = -1
       THEN Thrown(t, "Node not Found")
       ELSE LET d == detach(t, newChild)
            IN IF d.err # NoError
               THEN Thrown(d.t, d.err)
               ELSE LET t1 == [d.t EXCEPT !.p[oldChild] = Null]
                        t2 == [t1 EXCEPT !.p[newChild] = this]
                        t3 == [t2 EXCEPT !.c[this] = AssignAt(t2.c[this], index, newChild)]
                    IN Returned(t3, oldChild)

\* Node.firstChild
firstChild(t, this) == IF Len(t.c[this]) > 0 THEN t.c[this][1] ELSE Null

\* arr[index] || null for a 0-based index, which may lie outside the array
ElementAt(s, index) == IF index >= 0 /\ index < Len(s) THEN s[index + 1] ELSE Null

\* Node.lastChild
lastChild(t, this) == ElementAt(t.c[this], Len(t.c[this]) - 1)

\* Node.nextSibling
nextSibling(t, this) ==
    IF t.p[this] = Null THEN Null
    ELSE LET siblings == t.c[t.p[this]]
         IN ElementAt(siblings, IndexOf(siblings, this) + 1)

\* Node.previousSibling
previousSibling(t, this) ==
    IF t.p[this] = Null THEN Null
    ELSE LET siblings == t.c[t.p[this]]
         IN ElementAt(siblings, IndexOf(siblings, this) - 1)

\* if (this.firstChild) this.removeChild(this.firstChild), once instead of in a loop
removeFirstChild(t, this) ==
    IF firstChild(t, this) = Null
    THEN t
    ELSE removeChild(t, this, firstChild(t, this)).t

\* while (this.firstChild) this.removeChild(this.firstChild)
RECURSIVE removeAllChildren(_, _)
removeAllChildren(t, this) ==
    IF firstChild(t, this) = Null
    THEN t
    ELSE removeAllChildren(removeChild(t, this, firstChild(t, this)).t, this)

\* The setter of Node.textContent on the tree t, text being the node that
\* new Text(value) makes when the value is not empty.
setTextContent(t, this, value, text) ==
    LET emptied == removeAllChildren(t, this)
    IN IF value = ""
       THEN Returned(emptied, Undefined)
       ELSE [appendChild(emptied, this, text) EXCEPT !.ret = Undefined]

\* The node a `new` takes: the lowest heap cell not yet constructed.
Fresh == CHOOSE n \in Nodes \ Constructed : \A m \in Nodes \ Constructed : n <= m

\* ---------------------------------------------------------------- Element
\* A Map: a function from the keys it holds to their values.
EmptyMap == [k \in {} |-> ""]

MapSet(m, key, value) == [k \in DOMAIN m \cup {key} |-> IF k = key THEN value ELSE m[k]]

\* String.prototype.toUpperCase on the tag names in use.
ToUpperCase(str) ==
    CASE str = "div" -> "DIV"
      [] str = "p" -> "P"
      [] OTHER -> str

\* A string of class names is the sequence of its names, which single spaces
\* separate: "" is <<>> and "a b" is <<"a", "b">>.
\* The Element fields of a node that is not an Element.
NoElement == [tagName |-> "", attributes |-> EmptyMap, id |-> "", className |-> <<>>]

\* Element.constructor
NewElement(tagName) ==
    [tagName |-> ToUpperCase(tagName), attributes |-> EmptyMap, id |-> "", className |-> <<>>]

\* Element.setAttribute
setAttribute(el, name, value) ==
    LET el1 == IF name = "id" THEN [el EXCEPT !.id = value]
               ELSE IF name = "class" THEN [el EXCEPT !.className = value]
               ELSE el
    IN [el1 EXCEPT !.attributes = MapSet(el1.attributes, name, value)]

MapDelete(m, key) == [k \in DOMAIN m \ {key} |-> m[k]]

\* Element.removeAttribute
removeAttribute(el, name) ==
    LET el1 == IF name = "id" THEN [el EXCEPT !.id = ""] ELSE el
        el2 == IF name = "class" THEN [el1 EXCEPT !.className = <<>>] ELSE el1
    IN [el2 EXCEPT !.attributes = MapDelete(el2.attributes, name)]

\* A class string is the sequence of the pieces its single spaces separate; an
\* empty piece stands for a doubled, leading or trailing space, "" is <<>>.
\* classList._classes: self.className.split(/\s+/).filter(Boolean)
classes(el) == SelectSeq(el.className, LAMBDA c : c # "")

\* [...new Set(tokens)]: the first occurrence of each token, in order
RECURSIVE SetOrder(_)
SetOrder(tokens) ==
    IF tokens = <<>> THEN <<>>
    ELSE LET front == SetOrder(SubSeq(tokens, 1, Len(tokens) - 1))
             c == tokens[Len(tokens)]
         IN IF c \in Range(front) THEN front ELSE Push(front, c)

\* classList.contains
classListContains(el, className) == className \in Range(classes(el))

\* classList.add(...added): an outcome is [el, err, ret]
classListAdd(el, added) ==
    [el |-> [el EXCEPT !.className = SetOrder(classes(el) \o added)],
     err |-> NoError, ret |-> Undefined]

\* classList.remove(...removed): the body names claases, which is not defined
classListRemove(el, removed) ==
    [el |-> el, err |-> "ReferenceError: claases is not defined", ret |-> Undefined]

\* classList.toggle
classListToggle(el, className) ==
    IF classListContains(el, className)
    THEN LET r == classListRemove(el, <<className>>)
         IN IF r.err # NoError THEN r ELSE [r EXCEPT !.ret = FALSE]
    ELSE [classListAdd(el, <<className>>) EXCEPT !.ret = TRUE]

\* -------------------------------------------------------------- cloneNode
\* The heap h = [nodeType, p, c, data, elem]; an outcome is [h, err, ret].
Heap == [nodeType |-> nodeType, p |-> parentNode, c |-> childNodes, data |-> data,
         elem |-> elem]

Cells(h) == DOMAIN h.nodeType

Free(h) == {n \in Cells(h) : h.nodeType[n] = NotConstructed}

\* The cell a `new` takes: the lowest free one.
Alloc(h) == CHOOSE n \in Free(h) : \A m \in Free(h) : n <= m

\* new Text(data)
NewTextIn(h, value) ==
    LET n == Alloc(h)
    IN [h |-> [h EXCEPT !.nodeType[n] = TEXT_NODE, !.data[n] = value], err |-> NoError,
        ret |-> n]

\* new Element(tagName)
NewElementIn(h, tagName) ==
    LET n == Alloc(h)
    IN [h |-> [h EXCEPT !.nodeType[n] = ELEMENT_NODE, !.elem[n] = NewElement(tagName)],
        err |-> NoError, ret |-> n]

\* Document.constructor: the fields a document has of its own
NewDocument == [documentElement |-> Null]

\* new this.constructor() in Node.cloneNode, for a Document
NewDocumentIn(h) ==
    LET n == Alloc(h)
    IN [h |-> [h EXCEPT !.nodeType[n] = DOCUMENT_NODE, !.elem[n] = NewDocument],
        err |-> NoError, ret |-> n]

\* for (const [key, value] of this.attributes) clone.setAttributeNS(key, value);
\* no class defines setAttributeNS, so the first call of it throws a TypeError.
copyAttributes(h, this, clone) ==
    IF DOMAIN h.elem[this].attributes = {}
    THEN [h |-> h, err |-> NoError, ret |-> clone]
    ELSE [h |-> h, err |-> "TypeError: clone.setAttributeNS is not a function",
          ret |-> Undefined]

\* Element.cloneNode(true), Text.cloneNode() and, for a Document,
\* Node.cloneNode(true)
RECURSIVE cloneNode(_, _)
RECURSIVE cloneChildren(_, _, _, _)
cloneChildren(h, children, k, clone) ==
    IF k > Len(children)
    THEN [h |-> h, err |-> NoError, ret |-> clone]
    ELSE LET sub == cloneNode(h, children[k])
         IN IF sub.err # NoError
            THEN sub
            ELSE LET a == appendChild([p |-> sub.h.p, c |-> sub.h.c], clone, sub.ret)
                     h1 == [sub.h EXCEPT !.p = a.t.p, !.c = a.t.c]
                 IN IF a.err # NoError
                    THEN [h |-> h1, err |-> a.err, ret |-> Undefined]
                    ELSE cloneChildren(h1, children, k + 1, clone)

cloneNode(h, this) ==
    IF h.nodeType[this] = TEXT_NODE
    THEN NewTextIn(h, h.data[this])
    ELSE IF h.nodeType[this] = DOCUMENT_NODE
    THEN LET made == NewDocumentIn(h)
         IN cloneChildren(made.h, h.c[this], 1, made.ret)
    ELSE LET made == NewElementIn(h, h.elem[this].tagName)
             copied == copyAttributes(made.h, this, made.ret)
         IN IF copied.err # NoError
            THEN copied
            ELSE cloneChildren(copied.h, h.c[this], 1, made.ret)

\* Element.cloneNode(false), Text.cloneNode() and, for a Document,
\* Node.cloneNode(false)
cloneNodeShallow(h, this) ==
    IF h.nodeType[this] = TEXT_NODE
    THEN NewTextIn(h, h.data[this])
    ELSE IF h.nodeType[this] = DOCUMENT_NODE
    THEN NewDocumentIn(h)
    ELSE LET made == NewElementIn(h, h.elem[this].tagName)
         IN copyAttributes(made.h, this, made.ret)

\* The nodes of the subtree rooted at n.
RECURSIVE Subtree(_, _)
Subtree(h, n) == {n} \cup UNION {Subtree(h, h.c[n][k]) : k \in 1..Len(h.c[n])}

\* ----------------------------------------------------- contains, queries
\* A recursion deeper than the heap has cells is on a cycle and never returns:
\* the engine ends it with a RangeError.
StackLimit(t) == Cardinality(DOMAIN t.p)

RangeError == "RangeError: Maximum call stack size exceeded"

\* Node.contains
RECURSIVE containsAt(_, _, _, _)
RECURSIVE containsLoop(_, _, _, _, _)
containsLoop(t, children, k, node, depth) ==
    IF k > Len(children)
    THEN Returned(t, FALSE)
    ELSE LET r == containsAt(t, children[k], node, depth + 1)
         IN IF r.err # NoError THEN r
            ELSE IF r.ret THEN Returned(t, TRUE)
            ELSE containsLoop(t, children, k + 1, node, depth)

containsAt(t, this, node, depth) ==
    IF depth > StackLimit(t) THEN Thrown(t, RangeError)
    ELSE IF node = this THEN Returned(t, TRUE)
    ELSE containsLoop(t, t.c[this], 1, node, depth)

contains(t, this, node) == containsAt(t, this, node, 0)

\* selector.startsWith("#"), selector.startsWith(".") and selector.slice(1) on
\* the selectors in use.
Selectors == {"div", "p", "#a", ".c"}

Prefix(selector) ==
    CASE selector = "#a" -> "#"
      [] selector = ".c" -> "."
      [] OTHER -> ""

Slice1(selector) ==
    CASE selector = "#a" -> "a"
      [] selector = ".c" -> "c"

\* Element._createMatcher(selector)(el)
MatchesSelector(h, el, selector) ==
    IF Prefix(selector) = "#" THEN h.elem[el].id = Slice1(selector)
    ELSE IF Prefix(selector) = "." THEN Slice1(selector) \in Range(h.elem[el].className)
    ELSE h.elem[el].tagName = ToUpperCase(selector)

\* traverse(node) of _querySelectorAll: the outcome is [err, ret], ret being results
RECURSIVE traverse(_, _, _, _, _)
RECURSIVE traverseLoop(_, _, _, _, _, _)
traverseLoop(h, children, k, selector, results, depth) ==
    IF k > Len(children)
    THEN [err |-> NoError, ret |-> results]
    ELSE LET child == children[k]
         IN IF h.nodeType[child] # ELEMENT_NODE
            THEN traverseLoop(h, children, k + 1, selector, results, depth)
            ELSE LET pushed == IF MatchesSelector(h, child, selector)
                               THEN Push(results, child) ELSE results
                     r == traverse(h, child, selector, pushed, depth + 1)
                 IN IF r.err # NoError THEN r
                    ELSE traverseLoop(h, children, k + 1, selector, r.ret, depth)

traverse(h, node, selector, results, depth) ==
    IF depth > StackLimit(h)
    THEN [err |-> RangeError, ret |-> Undefined]
    ELSE traverseLoop(h, h.c[node], 1, selector, results, depth)

\* Element._querySelectorAll
querySelectorAll(h, this, selector) == traverse(h, this, selector, <<>>, 0)

\* Element.querySelector: this._querySelectorAll(selector)[0] || null
querySelector(h, this, selector) ==
    LET all == querySelectorAll(h, this, selector)
    IN IF all.err # NoError THEN all
       ELSE [err |-> NoError, ret |-> IF Len(all.ret) > 0 THEN all.ret[1] ELSE Null]

\* The search begun at the document itself, as getElementsByTagName does.
querySelectorAllFromDocument(h, this, selector) == traverse(h, this, selector, <<>>, 0)

\* Document.querySelectorAll
documentQuerySelectorAll(h, this, selector) ==
    LET root == h.elem[this].documentElement
    IN IF root = Null
       THEN [err |-> NoError, ret |-> <<>>]
       ELSE LET results == IF MatchesSelector(h, root, selector) THEN <<root>> ELSE <<>>
                below == querySelectorAll(h, root, selector)
            IN IF below.err # NoError THEN below
               ELSE [err |-> NoError, ret |-> results \o below.ret]

\* Document.querySelector
documentQuerySelector(h, this, selector) ==
    LET root == h.elem[this].documentElement
    IN IF root = Null
       THEN [err |-> NoError, ret |-> Null]
       ELSE IF MatchesSelector(h, root, selector)
            THEN [err |-> NoError, ret |-> root]
            ELSE querySelector(h, root, selector)

\* ------------------------------------------------------------ tree actions
\* The broken links of a forest: a child entry whose node points elsewhere, a
\* parent pointer with no child entry, and every repeated child entry.
BrokenLinks(t) ==
    {<<n, q>> \in Nodes \X Nodes : (n \in Range(t.c[q])) # (t.p[n] = q)}

Repeats(t) == {<<q, i>> \in Nodes \X (1..(2 * NumNodes + MaxDamage)) :
                  i <= Len(t.c[q]) /\ \E j \in 1..(i - 1) : t.c[q][j] = t.c[q][i]}

Damage(t) == Cardinality(BrokenLinks(t)) + Cardinality(Repeats(t))

Call(op, r) ==
    /\ parentNode' = r.t.p
    /\ childNodes' = r.t.c
    /\ last' = [op |-> op, err |-> r.err, ret |-> r.ret]

AppendChild(this, child) ==
    /\ Call("appendChild", appendChild(Tree, this, child))
    /\ UNCHANGED <<nodeType, data, elem, eventVars>>

InsertBefore(this, newNode, referenceNode) ==
    /\ Call("insertBefore", insertBefore(Tree, this, newNode, referenceNode))
    /\ UNCHANGED <<nodeType, data, elem, eventVars>>

RemoveChild(this, child) ==
    /\ Call("removeChild", removeChild(Tree, this, child))
    /\ UNCHANGED <<nodeType, data, elem, eventVars>>

ReplaceChild(this, newChild, oldChild) ==
    /\ Call("replaceChild", replaceChild(Tree, this, newChild, oldChild))
    /\ UNCHANGED <<nodeType, data, elem, eventVars>>

\* A read of one of the accessors firstChild, lastChild, nextSibling and
\* previousSibling of a node.
Read(op, value) ==
    /\ last' = [op |-> op, err |-> NoError, ret |-> value]
    /\ UNCHANGED <<nodeType, parentNode, childNodes, data, elem, eventVars>>

FirstChild(this) == Read("firstChild", firstChild(Tree, this))

LastChild(this) == Read("lastChild", lastChild(Tree, this))

NextSibling(this) == Read("nextSibling", nextSibling(Tree, this))

PreviousSibling(this) == Read("previousSibling", previousSibling(Tree, this))

\* node.textContent = value.  Text overrides the setter of Node.
SetTextContent(this, value) ==
    IF nodeType[this] = TEXT_NODE
    THEN /\ data' = [data EXCEPT ![this] = value]
         /\ last' = [op |-> "textContent=", err |-> NoError, ret |-> Undefined]
         /\ UNCHANGED <<nodeType, parentNode, childNodes, elem, eventVars>>
    ELSE IF value = ""
         THEN /\ Call("textContent=", setTextContent(Tree, this, value, Null))
              /\ UNCHANGED <<nodeType, data, elem, eventVars>>
         ELSE /\ Constructed # Nodes
              /\ nodeType' = [nodeType EXCEPT ![Fresh] = TEXT_NODE]
              /\ data' = [data EXCEPT ![Fresh] = value]
              /\ Call("textContent=", setTextContent(Tree, this, value, Fresh))
              /\ UNCHANGED <<elem, eventVars>>

\* ------------------------------------------------------------------ Event
\* new Event(type, options)
NewEventObject(type, bubbles, cancelable) ==
    [type |-> type, bubbles |-> bubbles, cancelable |-> cancelable,
     target |-> Null, currentTarget |-> Null, eventPhase |-> NONE,
     propagationStopped |-> FALSE, immediatePropagationStopped |-> FALSE,
     defaultPrevented |-> FALSE]

\* Event.stopPropagation
stopPropagation(ev) == [ev EXCEPT !.propagationStopped = TRUE]

\* stopImmediatePropagation setting its own flag alone.
stopImmediatePropagationAlone(ev) == [ev EXCEPT !.immediatePropagationStopped = TRUE]

\* Event.stopImmediatePropagation
stopImmediatePropagation(ev) ==
    [ev EXCEPT !.propagationStopped = TRUE, !.immediatePropagationStopped = TRUE]

\* preventDefault without the test of cancelable.
preventDefaultUnchecked(ev) == [ev EXCEPT !.defaultPrevented = TRUE]

\* Event.preventDefault
preventDefault(ev) ==
    IF ev.cancelable THEN [ev EXCEPT !.defaultPrevented = TRUE] ELSE ev

\* The listener functions of the scenarios, named by the one Event method their
\* body calls; "noop" calls none.
ListenerBody(listener, ev) ==
    CASE listener = "noop" -> ev
      [] listener = "preventDefault" -> preventDefault(ev)
      [] listener = "stopPropagation" -> stopPropagation(ev)
      [] listener = "stopImmediatePropagation" -> stopImmediatePropagation(ev)
      [] listener = "throw" -> ev
      [] listener \in {"addCapture", "addBubble"} -> ev
      [] listener \in {"dispatchNew", "redispatch"} -> ev
      [] listener \in {"removeCapture", "removeBubble"} -> ev
      [] listener \in {"detach", "adopt"} -> ev
      [] listener = "preventDefaultThenThrow" -> preventDefault(ev)
      [] listener = "stopPropagationThenThrow" -> stopPropagation(ev)
      [] listener = "stopImmediatePropagationThenThrow" -> stopImmediatePropagation(ev)

\* The listener functions whose body calls
\* this.addEventListener(event.type, noop, capture): the capture flag they pass.
Adders == {"addCapture", "addBubble"}

AddedCapture(listener) == listener = "addCapture"

\* The listener functions whose body calls
\* this.removeEventListener(event.type, noop, capture): the capture flag they pass.
Removers == {"removeCapture", "removeBubble"}

RemovedCapture(listener) == listener = "removeCapture"

\* The listener functions whose body changes the tree:
\* "detach" is  function () { if (this.parentNode) this.parentNode.removeChild(this); }
\* "adopt" is   function (event) { if (this !== event.target) this.appendChild(event.target); }
Mutators == {"detach", "adopt"}

\* The tree t after the body of the listener has run on `this`.
ListenerTree(listener, t, this, target) ==
    CASE listener = "detach" ->
            IF t.p[this] # Null THEN removeChild(t, t.p[this], this).t ELSE t
      [] listener = "adopt" ->
            IF this # target THEN appendChild(t, this, target).t ELSE t
      [] OTHER -> t

\* The listener functions whose body is a call of dispatchEvent on their node:
\* "dispatchNew" is  function (event) { this.dispatchEvent(new Event(event.type)); }
\* "redispatch" is   function (event) { this.dispatchEvent(event); }
Dispatchers == {"dispatchNew", "redispatch"}

\* The listener functions whose body ends in a throw statement.
Throws(listener) ==
    listener \in {"throw", "preventDefaultThenThrow", "stopPropagationThenThrow",
                  "stopImmediatePropagationThenThrow"}

\* The listener call with no try statement around it.
NoTryCatch(threw) == [escaped |-> threw, reported |-> FALSE]

\* try { entry.listener.call(this, event); } catch (e) { console.error(...); }
\* escaped: an exception leaves the statement; reported: console.error was called.
TryCatch(threw) == [escaped |-> FALSE, reported |-> threw]

\* ------------------------------------------------------------ EventTarget
\* this._listeners is an object: a function whose domain is the keys it holds.
EmptyObject == [ty \in {} |-> <<>>]

HasListeners(L, this, type) == type \in DOMAIN L[this]

\* this._listeners = {}: a key the object does not hold is read from
\* Object.prototype, which defines these names among others; the value read is a
\* function: truthy, with no push or filter method, and not iterable.
Inherited == {"constructor", "toString"}

InheritsProperty(L, this, type) == ~HasListeners(L, this, type) /\ type \in Inherited

TypeError == "TypeError"

\* The exception that leaves addEventListener: this._listeners[type].push is not
\* a function.
addEventListenerError(L, this, type) ==
    IF InheritsProperty(L, this, type) THEN TypeError ELSE NoError

\* The array this._listeners[type], read where the source has found it set.
ListenersOf(L, this, type) == IF HasListeners(L, this, type) THEN L[this][type] ELSE <<>>

SetListeners(L, this, type, arr) ==
    [L EXCEPT ![this] = [ty \in DOMAIN L[this] \cup {type} |->
                             IF ty = type THEN arr ELSE L[this][ty]]]

\* addEventListener leaving out a registration the array already holds.
addEventListenerOnce(L, this, type, listener, capture, once) ==
    LET L1 == IF ~HasListeners(L, this, type) THEN SetListeners(L, this, type, <<>>) ELSE L
        entry == [listener |-> listener, capture |-> capture, once |-> once]
    IN IF entry \in Range(L1[this][type])
       THEN L1
       ELSE SetListeners(L1, this, type, Push(L1[this][type], entry))

\* EventTarget.addEventListener
addEventListener(L, this, type, listener, capture, once) ==
    IF InheritsProperty(L, this, type)
    THEN L
    ELSE LET L1 == IF ~HasListeners(L, this, type)
                   THEN SetListeners(L, this, type, <<>>) ELSE L
         IN SetListeners(L1, this, type,
                Push(L1[this][type],
                     [listener |-> listener, capture |-> capture, once |-> once]))

\* removeEventListener matching the listener alone, whatever the capture flag.
removeEventListenerAnyCapture(L, this, type, listener, capture) ==
    IF ~HasListeners(L, this, type)
    THEN L
    ELSE LET Kept(entry) == ~(entry.listener = listener)
         IN SetListeners(L, this, type, SelectSeq(L[this][type], Kept))

\* EventTarget.removeEventListener
removeEventListener(L, this, type, listener, capture) ==
    IF ~HasListeners(L, this, type)
    THEN L
    ELSE LET Kept(entry) == ~(entry.listener = listener /\ entry.capture = capture)
         IN SetListeners(L, this, type, SelectSeq(L[this][type], Kept))

\* while (current) { path.unshift(current); current = current.parentNode; }
\* The loop ends when it meets a null parent; when the parent chain comes back to
\* a node that is on the path already, it goes round without end (ends = FALSE).
RECURSIVE PathLoop(_, _, _)
PathLoop(p, current, path) ==
    IF current = Null THEN [ends |-> TRUE, path |-> path]
    ELSE IF current \in Range(path) THEN [ends |-> FALSE, path |-> path]
    ELSE PathLoop(p, p[current], <<current>> \o path)

\* The ancestor path of dispatchEvent, root first.
PathTo(p, current) == PathLoop(p, current, <<>>).path

\* dispatchEvent keeping the target the event had.
KeepsTarget(ev, this) == ev

\* dispatchEvent starting from cleared flags.
SetTargetAndClear(ev, this) ==
    [ev EXCEPT !.target = this, !.propagationStopped = FALSE,
               !.immediatePropagationStopped = FALSE, !.defaultPrevented = FALSE]

\* event._target = this
SetTarget(ev, this) == [ev EXCEPT !.target = this]

\* _invokeListeners without its capture test.
SkipsNothing(pass, entry) == FALSE

\* The capture test made at the target as well, as in the bubble pass.
SkipsAtTargetToo(pass, entry) == entry.capture # (pass = "capture")

\* _invokeListeners: if (entry.capture !== forCapture) continue;
\* _invokeListenersAtTarget has no such test.
SkipsEntry(pass, entry) == pass # "target" /\ entry.capture # (pass = "capture")

\* The loop left on the propagation flag instead of the immediate one.
BreaksOnAnyStop(ev) == ev.propagationStopped

\* The loop never left early.
NeverBreaks(ev) == FALSE

\* if (event._immediatePropagationStopped) break;
BreaksAfter(ev) == ev.immediatePropagationStopped

\* The removal of a once entry made in the arrays of all the nodes.
RemoveOnceEverywhere(L, this, type, entry) ==
    LET Kept(x) == ~(x.listener = entry.listener /\ x.capture = entry.capture)
    IN IF entry.once
       THEN [n \in DOMAIN L |->
                [ty \in DOMAIN L[n] |-> IF ty = type THEN SelectSeq(L[n][ty], Kept)
                                        ELSE L[n][ty]]]
       ELSE L

\* _executeListner without the removal of a once entry.
KeepsOnce(L, this, type, entry) == L

\* _executeListner: if (entry.once) this.removeEventListener(...)
RemoveIfOnce(L, this, type, entry) ==
    IF entry.once THEN removeEventListener(L, this, type, entry.listener, entry.capture) ELSE L

\* return !event.defaultPrevented
ReturnValue(ev) == ~ev.defaultPrevented

\* A dispatchEvent call in progress is a frame: its place pc in the code, the
\* path, the loop index i, and, inside _invokeListeners on node `node`, the
\* copy [...listeners] being iterated with the index k of its next entry.
\* Run takes the call from its place to the next listener call ("call") or to
\* the return statement ("return"); the event's fields change on the way.
PassOver(f, ev) ==
    CASE f.pass = "capture" -> [f |-> [f EXCEPT !.pc = "capture", !.i = f.i + 1], ev |-> ev]
      [] f.pass = "target" -> [f |-> [f EXCEPT !.pc = "bubble"], ev |-> ev]
      [] f.pass = "bubble" -> [f |-> [f EXCEPT !.pc = "bubbleLoop", !.i = f.i - 1], ev |-> ev]

\* The entry of _invokeListeners / _invokeListenersAtTarget on `node`; the copy
\* [...listeners] of an inherited function throws a TypeError.
EnterPass(f, ev, L, node, pass) ==
    LET g == [f EXCEPT !.node = node, !.pass = pass]
    IN IF InheritsProperty(L, node, ev.type)
       THEN [f |-> [g EXCEPT !.pc = "throw"], ev |-> ev]
       ELSE IF ~HasListeners(L, node, ev.type)
       THEN PassOver(g, ev)
       ELSE [f |-> [g EXCEPT !.pc = "loop", !.snapshot = L[node][ev.type], !.k = 0],
             ev |-> ev]

\* The loop over the node's live array instead of a copy of it.
IteratedLive(f, ev, L) == ListenersOf(L, f.node, ev.type)

\* for (const entry of [...listeners]): the copy made as the pass begins.
Iterated(f, ev, L) == f.snapshot

\* The bubble phase entered whatever event.bubbles is.
EntersBubbleAlways(ev) == ~ev.propagationStopped

\* if (!event._propagationStopped && event.bubbles)
EntersBubble(ev) == ~ev.propagationStopped /\ ev.bubbles

Step(f, ev, L) ==
    CASE f.pc = "capture" ->
            IF f.i < Len(f.path) - 1 /\ ~ev.propagationStopped
            THEN EnterPass(f, [ev EXCEPT !.currentTarget = f.path[f.i + 1]], L,
                           f.path[f.i + 1], "capture")
            ELSE [f |-> [f EXCEPT !.pc = "target"], ev |-> ev]
      [] f.pc = "target" ->
            IF ~ev.propagationStopped
            THEN EnterPass(f, [ev EXCEPT !.eventPhase = AT_TARGET, !.currentTarget = f.this],
                           L, f.this, "target")
            ELSE [f |-> [f EXCEPT !.pc = "bubble"], ev |-> ev]
      [] f.pc = "bubble" ->
            IF EntersBubble(ev)
            THEN [f |-> [f EXCEPT !.pc = "bubbleLoop", !.i = Len(f.path) - 2],
                  ev |-> [ev EXCEPT !.eventPhase = BUBBLING_PHASE]]
            ELSE [f |-> [f EXCEPT !.pc = "return"], ev |-> ev]
      [] f.pc = "bubbleLoop" ->
            IF f.i >= 0 /\ ~ev.propagationStopped
            THEN EnterPass(f, [ev EXCEPT !.currentTarget = f.path[f.i + 1]], L,
                           f.path[f.i + 1], "bubble")
            ELSE [f |-> [f EXCEPT !.pc = "return"], ev |-> ev]
      [] f.pc = "loop" ->
            IF f.k >= Len(Iterated(f, ev, L))
            THEN PassOver(f, ev)
            ELSE IF SkipsEntry(f.pass, Iterated(f, ev, L)[f.k + 1])
                 THEN [f |-> [f EXCEPT !.k = f.k + 1], ev |-> ev]
                 ELSE [f |-> [f EXCEPT !.pc = "call"], ev |-> ev]

RECURSIVE Run(_, _, _)
Run(f, ev, L) ==
    IF f.pc \in {"path", "call", "inListener", "return", "throw"}
    THEN [f |-> f, ev |-> ev]
    ELSE LET s == Step(f, ev, L) IN Run(s.f, s.ev, L)

\* The calls of dispatchEvent made so far.
CallsMade == Len(returned) + Len(stack)

\* The dispatch state kept in one place for all events instead of in each.
StoreEventShared(evs, e, ev) ==
    [j \in DOMAIN evs |->
        IF j = e THEN ev
        ELSE [evs[j] EXCEPT !.target = ev.target, !.currentTarget = ev.currentTarget,
                            !.eventPhase = ev.eventPhase,
                            !.propagationStopped = ev.propagationStopped,
                            !.immediatePropagationStopped = ev.immediatePropagationStopped,
                            !.defaultPrevented = ev.defaultPrevented]]

\* event._target, event._phase, ... = ...: the fields written are those of the
\* Event instance that dispatchEvent was given.
StoreEvent(evs, e, ev) == [evs EXCEPT ![e] = ev]

\* The call either waits at its next listener or ends: it returns its value, or
\* (threw) an exception leaves it and value is not returned. evs are the events
\* constructed so far.
SettleIn(evs, rest, r) ==
    /\ events' = StoreEvent(evs, r.f.event, r.ev)
    /\ IF r.f.pc \in {"return", "throw"}
       THEN /\ stack' = rest
            /\ returned' = Append(returned, [call |-> r.f.call, event |-> r.f.event,
                                              target |-> r.f.this, final |-> r.ev,
                                              threw |-> r.f.pc = "throw",
                                              value |-> ReturnValue(r.ev)])
       ELSE /\ stack' = Append(rest, r.f)
            /\ returned' = returned

Settle(rest, r) == SettleIn(events, rest, r)

\* Call number c of dispatchEvent, on `this` with event number e whose state is
\* ev0, up to its first listener call; a call whose path loop does not end stays
\* in it (pc = "path") and never returns.
Begin(c, this, e, ev0, L) ==
    LET ev == SetTarget(ev0, this)
        loop == PathLoop(parentNode, this, <<>>)
        f == [call |-> c, event |-> e, this |-> this,
              path |-> loop.path, pc |-> IF loop.ends THEN "capture" ELSE "path",
              i |-> 0, node |-> Null, pass |-> "none", snapshot |-> <<>>, k |-> 0]
    IN Run(f, IF loop.ends THEN [ev EXCEPT !.eventPhase = CAPTURING_PHASE] ELSE ev, L)

\* The path followed from the target anew after each listener, the root repeated
\* in front where the chain has become shorter.
PathRecomputed(path, p, this) ==
    LET now == PathTo(p, this)
    IN [j \in 1..Len(path) |->
           IF j <= Len(path) - Len(now) THEN now[1]
           ELSE now[j - (Len(path) - Len(now))]]

\* const path = []: the array filled by the path loop is the one the three
\* passes read, whatever parent chain p the tree has by then.
PathKept(path, p, this) == path

\* _executeListner and the loop around it once the listener call is over: the
\* exception leaves the call if it escaped, else the loop breaks or goes on.
AfterListener(f, ev, escaped) ==
    IF escaped
    THEN [f EXCEPT !.pc = "throw"]
    ELSE IF BreaksAfter(ev)
         THEN PassOver(f, ev).f
         ELSE [f EXCEPT !.pc = "loop", !.k = f.k + 1]

\* --------------------------------------------------------- event actions
AddEventListener(this, type, listener, capture, once) ==
    /\ stack = <<>>
    /\ listeners' = addEventListener(listeners, this, type, listener, capture, once)
    /\ registered' = [registered EXCEPT ![this] =
                          Append(@, [type |-> type, listener |-> listener,
                                     capture |-> capture, once |-> once])]
    /\ last' = [op |-> "addEventListener",
                err |-> addEventListenerError(listeners, this, type), ret |-> Undefined]
    /\ UNCHANGED <<nodeType, parentNode, childNodes, data, elem,
                   removals, events, stack, log, returned>>

RemoveEventListener(this, type, listener, capture) ==
    /\ stack = <<>>
    /\ listeners' = removeEventListener(listeners, this, type, listener, capture)
    /\ removals' = Append(removals, [this |-> this, type |-> type, listener |-> listener,
                                     capture |-> capture, before |-> listeners,
                                     after |-> listeners'])
    /\ UNCHANGED <<treeVars, registered, events, stack, log, returned>>

NewEvent(type, bubbles, cancelable) ==
    /\ stack = <<>>
    /\ events' = Append(events, NewEventObject(type, bubbles, cancelable))
    /\ UNCHANGED <<treeVars, listeners, registered, removals, stack, log, returned>>

\* this.dispatchEvent(events[e]) called by the program, up to its first listener
\* call.
DispatchEvent(this, e) ==
    /\ stack = <<>>
    /\ Settle(stack, Begin(CallsMade + 1, this, e, events[e], listeners))
    /\ UNCHANGED <<treeVars, listeners, registered, removals, log>>

\* _executeListner(entry, event) for the entry the innermost call waits at. A
\* listener that calls no dispatchEvent runs to its end, and the call goes on to
\* its next listener call. A listener of Dispatchers runs up to the first
\* listener call of the dispatchEvent call it makes, and waits in its body
\* (pc = "inListener") while that call is on the stack.
InvokeListener ==
    /\ stack # <<>>
    /\ LET f == stack[Len(stack)]
           rest == SubSeq(stack, 1, Len(stack) - 1)
           ev == events[f.event]
           entry == Iterated(f, ev, listeners)[f.k + 1]
           L1 == RemoveIfOnce(listeners, f.node, ev.type, entry)
           adds == entry.listener \in Adders
           L2 == IF adds
                 THEN addEventListener(L1, f.node, ev.type, "noop",
                                       AddedCapture(entry.listener), FALSE)
                 ELSE IF entry.listener \in Removers
                 THEN removeEventListener(L1, f.node, ev.type, "noop",
                                          RemovedCapture(entry.listener))
                 ELSE L1
           ev1 == ListenerBody(entry.listener, ev)
           try == TryCatch(Throws(entry.listener))
           t1 == ListenerTree(entry.listener, Tree, f.node, ev.target)
           f1 == [f EXCEPT !.path = PathKept(f.path, t1.p, f.this)]
       IN /\ f.pc = "call"
          /\ parentNode' = t1.p
          /\ childNodes' = t1.c
          /\ listeners' = L2
          /\ registered' = IF adds
                           THEN [registered EXCEPT ![f.node] =
                                    Append(@, [type |-> ev.type, listener |-> "noop",
                                               capture |-> AddedCapture(entry.listener),
                                               once |-> FALSE])]
                           ELSE registered
          /\ log' = Append(log, [call |-> f.call, event |-> f.event, this |-> f.node,
                                 pass |-> f.pass, snapshot |-> f.snapshot,
                                 listener |-> entry.listener, capture |-> entry.capture,
                                 once |-> entry.once, reported |-> try.reported,
                                 eventPhase |-> ev.eventPhase,
                                 currentTarget |-> ev.currentTarget, target |-> ev.target,
                                 propagationStopped |-> ev.propagationStopped,
                                 immediatePropagationStopped |->
                                     ev.immediatePropagationStopped,
                                 defaultPrevented |-> ev.defaultPrevented])
          /\ IF entry.listener \in Dispatchers
             THEN LET evs == IF entry.listener = "dispatchNew"
                             THEN Append(events, NewEventObject(ev.type, FALSE, FALSE))
                             ELSE events
                      e == IF entry.listener = "dispatchNew" THEN Len(evs) ELSE f.event
                  IN SettleIn(evs, Append(rest, [f EXCEPT !.pc = "inListener"]),
                              Begin(CallsMade + 1, f.node, e, evs[e], L2))
             ELSE Settle(rest, Run(AfterListener(f1, ev1, try.escaped), ev1, L2))
    /\ UNCHANGED <<nodeType, data, elem, last, removals>>

\* The dispatchEvent call made by the listener of the innermost call has
\* returned: the listener returns, and the call goes on to its next listener call.
ListenerReturns ==
    /\ stack # <<>>
    /\ LET f == stack[Len(stack)]
           ev == events[f.event]
       IN /\ f.pc = "inListener"
          /\ Settle(SubSeq(stack, 1, Len(stack) - 1),
                    Run(AfterListener(f, ev, TryCatch(FALSE).escaped), ev, listeners))
    /\ UNCHANGED <<treeVars, listeners, registered, removals, log>>

\* a.contains(b)
Contains(this, node) ==
    /\ LET r == contains(Tree, this, node)
       IN last' = [op |-> "contains", err |-> r.err, ret |-> r.ret]
    /\ UNCHANGED <<nodeType, parentNode, childNodes, data, elem, eventVars>>

\* el.querySelectorAll(selector)
QuerySelectorAll(this, selector) ==
    /\ nodeType[this] = ELEMENT_NODE
    /\ LET r == querySelectorAll(Heap, this, selector)
       IN last' = [op |-> "querySelectorAll", err |-> r.err, ret |-> r.ret]
    /\ UNCHANGED <<nodeType, parentNode, childNodes, data, elem, eventVars>>

\* el.querySelector(selector)
QuerySelector(this, selector) ==
    /\ nodeType[this] = ELEMENT_NODE
    /\ LET r == querySelector(Heap, this, selector)
       IN last' = [op |-> "querySelector", err |-> r.err, ret |-> r.ret]
    /\ UNCHANGED <<nodeType, parentNode, childNodes, data, elem, eventVars>>

\* document.documentElement = el
SetDocumentElement(this, el) ==
    /\ nodeType[this] = DOCUMENT_NODE
    /\ nodeType[el] = ELEMENT_NODE
    /\ elem' = [elem EXCEPT ![this].documentElement = el]
    /\ last' = [op |-> "documentElement=", err |-> NoError, ret |-> Undefined]
    /\ UNCHANGED <<nodeType, parentNode, childNodes, data, eventVars>>

\* document.querySelectorAll(selector)
DocumentQuerySelectorAll(this, selector) ==
    /\ nodeType[this] = DOCUMENT_NODE
    /\ LET r == documentQuerySelectorAll(Heap, this, selector)
       IN last' = [op |-> "document.querySelectorAll", err |-> r.err, ret |-> r.ret]
    /\ UNCHANGED <<nodeType, parentNode, childNodes, data, elem, eventVars>>

\* document.querySelector(selector)
DocumentQuerySelector(this, selector) ==
    /\ nodeType[this] = DOCUMENT_NODE
    /\ LET r == documentQuerySelector(Heap, this, selector)
       IN last' = [op |-> "document.querySelector", err |-> r.err, ret |-> r.ret]
    /\ UNCHANGED <<nodeType, parentNode, childNodes, data, elem, eventVars>>

\* el.setAttribute(name, value)
SetAttribute(this, name, value) ==
    /\ nodeType[this] = ELEMENT_NODE
    /\ elem' = [elem EXCEPT ![this] = setAttribute(elem[this], name, value)]
    /\ last' = [op |-> "setAttribute", err |-> NoError, ret |-> Undefined]
    /\ UNCHANGED <<nodeType, parentNode, childNodes, data, eventVars>>

\* el.removeAttribute(name)
RemoveAttribute(this, name) ==
    /\ nodeType[this] = ELEMENT_NODE
    /\ elem' = [elem EXCEPT ![this] = removeAttribute(elem[this], name)]
    /\ last' = [op |-> "removeAttribute", err |-> NoError, ret |-> Undefined]
    /\ UNCHANGED <<nodeType, parentNode, childNodes, data, eventVars>>

\* el.id = value
SetId(this, value) ==
    /\ nodeType[this] = ELEMENT_NODE
    /\ elem' = [elem EXCEPT ![this].id = value]
    /\ last' = [op |-> "id=", err |-> NoError, ret |-> Undefined]
    /\ UNCHANGED <<nodeType, parentNode, childNodes, data, eventVars>>

\* el.className = value
SetClassName(this, value) ==
    /\ nodeType[this] = ELEMENT_NODE
    /\ elem' = [elem EXCEPT ![this].className = value]
    /\ last' = [op |-> "className=", err |-> NoError, ret |-> Undefined]
    /\ UNCHANGED <<nodeType, parentNode, childNodes, data, eventVars>>

\* A call of a classList method with outcome r.
ClassListCall(this, op, r) ==
    /\ nodeType[this] = ELEMENT_NODE
    /\ elem' = [elem EXCEPT ![this] = r.el]
    /\ last' = [op |-> op, err |-> r.err, ret |-> r.ret]
    /\ UNCHANGED <<nodeType, parentNode, childNodes, data, eventVars>>

\* el.classList.add(className)
ClassListAdd(this, className) ==
    ClassListCall(this, "classList.add", classListAdd(elem[this], <<className>>))

\* el.classList.remove(className)
ClassListRemove(this, className) ==
    ClassListCall(this, "classList.remove", classListRemove(elem[this], <<className>>))

\* el.classList.toggle(className)
ClassListToggle(this, className) ==
    ClassListCall(this, "classList.toggle", classListToggle(elem[this], className))

\* node.cloneNode(true), with cells left for a copy of the whole subtree
CloneNode(this) ==
    /\ Cardinality(Free(Heap)) >= Cardinality(Subtree(Heap, this))
    /\ LET r == cloneNode(Heap, this)
       IN /\ nodeType' = r.h.nodeType
          /\ parentNode' = r.h.p
          /\ childNodes' = r.h.c
          /\ data' = r.h.data
          /\ elem' = r.h.elem
          /\ last' = [op |-> "cloneNode", err |-> r.err, ret |-> r.ret]
    /\ UNCHANGED eventVars

\* node.cloneNode(false), with a cell left for the copy
CloneNodeShallow(this) ==
    /\ Free(Heap) # {}
    /\ LET r == cloneNodeShallow(Heap, this)
       IN /\ nodeType' = r.h.nodeType
          /\ parentNode' = r.h.p
          /\ childNodes' = r.h.c
          /\ data' = r.h.data
          /\ elem' = r.h.elem
          /\ last' = [op |-> "cloneNode", err |-> r.err, ret |-> r.ret]
    /\ UNCHANGED eventVars

NoCall == [op |-> "none", err |-> NoError, ret |-> Undefined]

\* The heap after NumElements calls of new Element(...): the elements are
\* detached, and the remaining cell is free for a Text node.
InitHeap ==
    /\ nodeType = [n \in Nodes |-> IF n <= NumElements THEN ELEMENT_NODE ELSE NotConstructed]
    /\ parentNode = [n \in Nodes |-> Null]
    /\ childNodes = [n \in Nodes |-> <<>>]
    /\ data = [n \in Nodes |-> ""]
    /\ elem = [n \in Nodes |-> IF n <= NumElements THEN NewElement("div") ELSE NoElement]
    /\ last = NoCall

InitEvents ==
    /\ listeners = [n \in Nodes |-> EmptyObject]
    /\ registered = [n \in Nodes |-> <<>>]
    /\ removals = <<>>
    /\ events = <<>>
    /\ stack = <<>>
    /\ log = <<>>
    /\ returned = <<>>

InitTree == InitHeap /\ InitEvents

\* Calls are explored from every forest with at most MaxDamage broken links.
NextTree ==
  /\ Damage(Tree) <= MaxDamage
  /\
    \/ \E this \in Constructed, child \in Constructed : AppendChild(this, child)
    \/ \E this \in Constructed, newNode \in Constructed, ref \in Constructed \cup {Null} :
           InsertBefore(this, newNode, ref)
    \/ \E this \in Constructed, child \in Constructed : RemoveChild(this, child)
    \/ \E this \in Constructed, newChild \in Constructed, oldChild \in Constructed :
           ReplaceChild(this, newChild, oldChild)
    \/ \E this \in Constructed, value \in TextValues : SetTextContent(this, value)

SpecTree == InitTree /\ [][NextTree]_vars

\* The program changes the tree of its nodes, all constructed, and reads the
\* accessors; calls are explored from every forest with at most MaxDamage broken
\* links.
InitSibling ==
    /\ nodeType = [n \in Nodes |-> ELEMENT_NODE]
    /\ parentNode = [n \in Nodes |-> Null]
    /\ childNodes = [n \in Nodes |-> <<>>]
    /\ data = [n \in Nodes |-> ""]
    /\ elem = [n \in Nodes |-> NewElement("div")]
    /\ last = NoCall
    /\ InitEvents

NextSiblingSpec ==
  /\ Damage(Tree) <= MaxDamage
  /\
    \/ \E this \in Nodes, child \in Nodes : AppendChild(this, child)
    \/ \E this \in Nodes, newNode \in Nodes, ref \in Nodes \cup {Null} :
           InsertBefore(this, newNode, ref)
    \/ \E this \in Nodes, child \in Nodes : RemoveChild(this, child)
    \/ \E this \in Nodes, newChild \in Nodes, oldChild \in Nodes :
           ReplaceChild(this, newChild, oldChild)
    \/ \E this \in Nodes : FirstChild(this)
    \/ \E this \in Nodes : LastChild(this)
    \/ \E this \in Nodes : NextSibling(this)
    \/ \E this \in Nodes : PreviousSibling(this)

SpecSibling == InitSibling /\ [][NextSiblingSpec]_vars

\* The heap after
\*   d = new Element("div"); q = new Element("p"); t = new Text("x");
\*   d.appendChild(q); q.appendChild(t)
\* with the cells 4..CloneCells free.
CloneHeap == 1..CloneCells

InitClone ==
    /\ nodeType = [n \in CloneHeap |-> CASE n \in {1, 2} -> ELEMENT_NODE
                                         [] n = 3 -> TEXT_NODE
                                         [] OTHER -> NotConstructed]
    /\ parentNode = [n \in CloneHeap |-> IF n \in {2, 3} THEN n - 1 ELSE Null]
    /\ childNodes = [n \in CloneHeap |-> IF n \in {1, 2} THEN <<n + 1>> ELSE <<>>]
    /\ data = [n \in CloneHeap |-> IF n = 3 THEN "x" ELSE ""]
    /\ elem = [n \in CloneHeap |-> CASE n = 1 -> NewElement("div")
                                     [] n = 2 -> NewElement("p")
                                     [] OTHER -> NoElement]
    /\ last = [op |-> "appendChild", err |-> NoError, ret |-> 3]
    /\ InitEvents

\* The program sets attributes and text data and clones subtrees.
NextClone ==
    \/ \E this \in CloneHeap, name \in AttributeNames, value \in AttributeValues :
           SetAttribute(this, name, value)
    \/ \E this \in CloneHeap, value \in TextValues \cup {"y"} :
           nodeType[this] = TEXT_NODE /\ SetTextContent(this, value)
    \/ \E this \in CloneHeap : nodeType[this] # NotConstructed /\ CloneNode(this)
    \/ \E this \in CloneHeap : nodeType[this] # NotConstructed /\ CloneNodeShallow(this)

SpecClone == InitClone /\ [][NextClone]_vars

\* The heap after
\*   new Element("div"); c = new Element("p"); e = new Element("div"); ...;
\*   new Text("x"); c.setAttribute("class", "c"); e.setAttribute("id", "a")
\* with a text node in the last cell.
QueryHeap == 1..QueryCells

InitQuery ==
    /\ nodeType = [n \in QueryHeap |-> IF n = QueryCells THEN TEXT_NODE ELSE ELEMENT_NODE]
    /\ parentNode = [n \in QueryHeap |-> Null]
    /\ childNodes = [n \in QueryHeap |-> <<>>]
    /\ data = [n \in QueryHeap |-> IF n = QueryCells THEN "x" ELSE ""]
    /\ elem = [n \in QueryHeap |->
                  LET el == NewElement(IF n % 2 = 1 THEN "div" ELSE "p")
                  IN IF n = QueryCells THEN NoElement
                     ELSE IF n = 2 THEN setAttribute(el, "class", <<"c">>)
                     ELSE IF n = 3 THEN setAttribute(el, "id", "a")
                     ELSE el]
    /\ last = [op |-> "setAttribute", err |-> NoError, ret |-> Undefined]
    /\ InitEvents

\* The heap after
\*   new Document(); c = new Element("p"); e = new Element("div"); ...;
\*   c.setAttribute("class", "c"); e.setAttribute("id", "a")
DocumentHeap == 1..DocumentCells

InitDocument ==
    /\ nodeType = [n \in DocumentHeap |-> IF n = 1 THEN DOCUMENT_NODE ELSE ELEMENT_NODE]
    /\ parentNode = [n \in DocumentHeap |-> Null]
    /\ childNodes = [n \in DocumentHeap |-> <<>>]
    /\ data = [n \in DocumentHeap |-> ""]
    /\ elem = [n \in DocumentHeap |->
                  LET el == NewElement(IF n % 2 = 1 THEN "div" ELSE "p")
                  IN IF n = 1 THEN NewDocument
                     ELSE IF n = 2 THEN setAttribute(el, "class", <<"c">>)
                     ELSE IF n = 3 THEN setAttribute(el, "id", "a")
                     ELSE el]
    /\ last = [op |-> "setAttribute", err |-> NoError, ret |-> Undefined]
    /\ InitEvents

\* The program builds trees under the document and its elements with appendChild,
\* sets documentElement and queries the document.
NextDocument ==
    \/ \E this \in DocumentHeap, child \in DocumentHeap \ {1} : AppendChild(this, child)
    \/ \E this \in DocumentHeap, el \in DocumentHeap : SetDocumentElement(this, el)
    \/ \E this \in DocumentHeap, selector \in Selectors :
           DocumentQuerySelectorAll(this, selector)
    \/ \E this \in DocumentHeap, selector \in Selectors :
           DocumentQuerySelector(this, selector)

SpecDocument == InitDocument /\ [][NextDocument]_vars

\* The program builds trees with appendChild and queries them.
NextQuery ==
    \/ \E this \in QueryHeap, child \in QueryHeap : AppendChild(this, child)
    \/ \E this \in QueryHeap, node \in QueryHeap : Contains(this, node)
    \/ \E this \in QueryHeap, selector \in Selectors : QuerySelectorAll(this, selector)
    \/ \E this \in QueryHeap, selector \in Selectors : QuerySelector(this, selector)

SpecQuery == InitQuery /\ [][NextQuery]_vars

\* The heap after new Element("div"), once per cell.
AttrHeap == 1..AttrCells

InitAttr ==
    /\ nodeType = [n \in AttrHeap |-> ELEMENT_NODE]
    /\ parentNode = [n \in AttrHeap |-> Null]
    /\ childNodes = [n \in AttrHeap |-> <<>>]
    /\ data = [n \in AttrHeap |-> ""]
    /\ elem = [n \in AttrHeap |-> NewElement("div")]
    /\ last = [op |-> "new", err |-> NoError, ret |-> Undefined]
    /\ InitEvents

Ids == {"", "a", "b"}

ClassNames == {"c", "d"}

ClassStrings == {<<>>, <<"c">>, <<"d", "", "c">>}

\* The program sets and removes attributes, writes id and className and calls
\* the classList methods.
NextAttr ==
    \/ \E this \in AttrHeap, value \in Ids : SetAttribute(this, "id", value)
    \/ \E this \in AttrHeap, value \in ClassStrings : SetAttribute(this, "class", value)
    \/ \E this \in AttrHeap : SetAttribute(this, "title", "a")
    \/ \E this \in AttrHeap, name \in {"id", "class", "title"} : RemoveAttribute(this, name)
    \/ \E this \in AttrHeap, value \in Ids : SetId(this, value)
    \/ \E this \in AttrHeap, value \in ClassStrings : SetClassName(this, value)
    \/ \E this \in AttrHeap, className \in ClassNames : ClassListAdd(this, className)
    \/ \E this \in AttrHeap, className \in ClassNames : ClassListRemove(this, className)
    \/ \E this \in AttrHeap, className \in ClassNames : ClassListToggle(this, className)

SpecAttr == InitAttr /\ [][NextAttr]_vars

\* ------------------------------------------------------------ tree claims
\* C7: the parent/child relation is bidirectionally consistent: n occurs in
\* childNodes[q] exactly when parentNode[n] = q, and no node occurs twice in a
\* childNodes sequence (so none occurs in two sequences).
C7_ParentChildConsistent ==
    /\ \A n \in Nodes, q \in Nodes : (n \in Range(childNodes[q])) <=> (parentNode[n] = q)
    /\ \A q \in Nodes, n \in Nodes : Count(childNodes[q], n) <= 1

RECURSIVE ReachesRoot(_, _)
ReachesRoot(n, steps) ==
    IF n = Null THEN TRUE
    ELSE IF steps = 0 THEN FALSE
    ELSE ReachesRoot(parentNode[n], steps - 1)

\* C8: the parent relation is acyclic: following parentNode from any node
\* reaches a parentless node within NumNodes steps.
C8_Acyclic == \A n \in Nodes : ReachesRoot(n, NumNodes)

\* C9: after this.appendChild(child) the call has returned child, child's
\* parentNode is this, child is the last entry of this.childNodes and occurs there
\* once, and a prior parent other than this no longer holds child.
C9_AppendChildPost ==
    [][\A this \in Nodes, child \in Nodes :
          AppendChild(this, child) =>
              /\ last'.err = NoError
              /\ last'.ret = child
              /\ parentNode'[child] = this
              /\ Len(childNodes'[this]) > 0
              /\ childNodes'[this][Len(childNodes'[this])] = child
              /\ Count(childNodes'[this], child) = 1
              /\ parentNode[child] \notin {Null, this}
                    => child \notin Range(childNodes'[parentNode[child]])]_vars

\* The call has thrown and has changed no parentNode and no childNodes.
ThrowsUnchanged(r) == r.err # NoError /\ r.t = Tree

\* C10: in every forest, removeChild(x), replaceChild(n, x) and insertBefore(n, x)
\* with x not in the receiver's childNodes throw, and change no parentNode and
\* no childNodes.
C10_NotAChildFails ==
    \A this \in Constructed, n \in Constructed, x \in Constructed :
        x \notin Range(childNodes[this]) =>
            /\ ThrowsUnchanged(removeChild(Tree, this, x))
            /\ ThrowsUnchanged(replaceChild(Tree, this, n, x))
            /\ ThrowsUnchanged(insertBefore(Tree, this, n, x))

\* C10's case: insertBefore has thrown for its reference node in a forest where
\* every node, so also the node to insert, is attached to a parent.
C10_Witness ==
    /\ last.op = "insertBefore"
    /\ last.err = "Reference node not found"
    /\ \A n \in Constructed : parentNode[n] # Null


\* The entries of s other than those in X, in their order.
Without(s, X) == LET Keep(x) == x \notin X IN SelectSeq(s, Keep)

\* The forest is one of trees: its links agree and no node is its own ancestor.
WellFormed ==
    /\ \A n, q \in Nodes : (n \in Range(childNodes[q])) <=> (parentNode[n] = q)
    /\ \A q, n \in Nodes : Count(childNodes[q], n) <= 1
    /\ \A n \in Nodes : ReachesRoot(n, NumNodes)

\* C11: in a forest of well-formed trees, this.insertBefore(newNode, ref) with ref a
\* child of this and newNode another node returns newNode, leaves newNode once in
\* this.childNodes and immediately before ref, with parentNode this, in no prior
\* parent's childNodes, and the other children in their relative order.
C11_InsertBeforePost ==
    WellFormed =>
    \A this, newNode, ref \in Constructed :
        (ref \in Range(childNodes[this]) /\ newNode # ref) =>
            LET r == insertBefore(Tree, this, newNode, ref)
                c == r.t.c[this]
            IN /\ r.err = NoError /\ r.ret = newNode
               /\ r.t.p[newNode] = this
               /\ Count(c, newNode) = 1
               /\ \E i \in 1..(Len(c) - 1) : c[i] = newNode /\ c[i + 1] = ref
               /\ parentNode[newNode] \notin {Null, this}
                     => newNode \notin Range(r.t.c[parentNode[newNode]])
               /\ Without(c, {newNode}) = Without(childNodes[this], {newNode})

\* C12: in a forest of well-formed trees, this.replaceChild(newChild, oldChild) with
\* oldChild a child of this returns oldChild and keeps every other child of this,
\* in the same relative order and with parentNode this; when newChild is another
\* node, oldChild has left this.childNodes and has parentNode null, and newChild
\* stands once in this.childNodes, where oldChild stood among the other children.
C12_ReplaceChildPost ==
    WellFormed =>
    \A this, newChild, oldChild \in Constructed :
        oldChild \in Range(childNodes[this]) =>
            LET r == replaceChild(Tree, this, newChild, oldChild)
                c == r.t.c[this]
                before == Without(childNodes[this], {newChild})
            IN /\ r.err = NoError /\ r.ret = oldChild
               /\ Without(c, {newChild}) = Without(childNodes[this], {newChild, oldChild})
               /\ \A n \in Range(childNodes[this]) \ {newChild, oldChild} : r.t.p[n] = this
               /\ r.t.p[newChild] = this
               /\ newChild # oldChild =>
                     /\ oldChild \notin Range(c) /\ r.t.p[oldChild] = Null
                     /\ c = [i \in 1..Len(before) |->
                                IF before[i] = oldChild THEN newChild ELSE before[i]]

\* C13: this.removeChild(child) with child in this.childNodes returns child, sets
\* child's parentNode to null, takes exactly one entry, an entry for child, out of
\* this.childNodes, and changes no other parentNode and no other childNodes (the
\* children of child stay its children).
C13_RemoveChildPost ==
    \A this, child \in Constructed :
        child \in Range(childNodes[this]) =>
            LET r == removeChild(Tree, this, child)
                c == childNodes[this]
            IN /\ r.err = NoError /\ r.ret = child
               /\ r.t.p[child] = Null
               /\ \E i \in 1..Len(c) :
                     /\ c[i] = child
                     /\ r.t.c[this] = SubSeq(c, 1, i - 1) \o SubSeq(c, i + 1, Len(c))
               /\ \A n \in Nodes \ {child} : r.t.p[n] = parentNode[n]
               /\ \A q \in Nodes \ {this} : r.t.c[q] = childNodes[q]

\* C13's case: removeChild has just returned a child that has a child of its own,
\* which is still its child.
C13_Witness ==
    /\ last.op = "removeChild" /\ last.err = NoError
    /\ parentNode[last.ret] = Null
    /\ childNodes[last.ret] # <<>>
    /\ last.ret \notin Range(childNodes[last.ret])
    /\ \A n \in Range(childNodes[last.ret]) : parentNode[n] = last.ret

\* ------------------------------------------------- dispatch scenarios
\* The program builds trees of its elements with the mutation operations,
\* registers listeners and dispatches events on the nodes.
NextPath ==
    \/ /\ stack = <<>>
       /\ \E this \in Constructed, child \in Constructed : AppendChild(this, child)
    \/ /\ stack = <<>>
       /\ \E this \in Constructed, newNode \in Constructed, ref \in Constructed \cup {Null} :
              InsertBefore(this, newNode, ref)
    \/ /\ stack = <<>>
       /\ \E this \in Constructed, child \in Constructed : RemoveChild(this, child)
    \/ /\ events = <<>>
       /\ \A n \in Nodes : registered[n] = <<>>
       /\ \E this \in Constructed, capture \in BOOLEAN :
              AddEventListener(this, "click", "noop", capture, FALSE)
    \/ /\ events = <<>>
       /\ NewEvent("click", TRUE, FALSE)
    \/ /\ CallsMade < PathCalls
       /\ \E this \in Constructed, e \in 1..Len(events) : DispatchEvent(this, e)
    \/ InvokeListener

SpecPath == InitTree /\ [][NextPath]_vars

\* The heap after building the chain 1 <- 2 <- ... <- NumNodes of elements
\* with appendChild: node 1 is the root.
InitChain ==
    /\ nodeType = [n \in Nodes |-> ELEMENT_NODE]
    /\ parentNode = [n \in Nodes |-> IF n = 1 THEN Null ELSE n - 1]
    /\ childNodes = [n \in Nodes |-> IF n = NumNodes THEN <<>> ELSE <<n + 1>>]
    /\ data = [n \in Nodes |-> ""]
    /\ elem = [n \in Nodes |-> NewElement("div")]
    /\ last = [op |-> "appendChild", err |-> NoError, ret |-> NumNodes]

RegistrationsMade == LET Sum[n \in 0..NumNodes] ==
                             IF n = 0 THEN 0 ELSE Sum[n - 1] + Len(registered[n])
                     IN Sum[NumNodes]

\* The program registers its listeners, constructs events and dispatches them.
EventNext(Listeners, OnceFlags, CancelableFlags, maxRegs, maxCalls) ==
    \/ /\ events = <<>>
       /\ RegistrationsMade < maxRegs
       /\ \E this \in Nodes, type \in Types, listener \in Listeners,
             capture \in BOOLEAN, once \in OnceFlags :
              AddEventListener(this, type, listener, capture, once)
    \/ /\ Len(events) < maxCalls
       /\ Len(events) = CallsMade
       /\ \E type \in Types, bubbles \in BOOLEAN, cancelable \in CancelableFlags :
              NewEvent(type, bubbles, cancelable)
    \/ /\ CallsMade < maxCalls
       /\ \E this \in Nodes, e \in 1..Len(events) : DispatchEvent(this, e)
    \/ InvokeListener

InitDispatch == InitChain /\ InitEvents

NextDispatch ==
    EventNext({"preventDefault", "stopPropagation", "stopImmediatePropagation"},
              {FALSE}, BOOLEAN, MaxRegs, MaxCalls)

SpecDispatch == InitDispatch /\ [][NextDispatch]_vars

\* Two sequential dispatches over registrations that may be once.
NextOnce ==
    EventNext({"noop", "stopImmediatePropagation"}, BOOLEAN, {FALSE}, OnceRegs, OnceCalls)

SpecOnce == InitDispatch /\ [][NextOnce]_vars

\* One dispatch over listeners that all throw, some after a call on the event.
NextThrow ==
    EventNext({"throw", "preventDefaultThenThrow", "stopPropagationThenThrow",
               "stopImmediatePropagationThenThrow"}, {FALSE}, BOOLEAN, MaxRegs, MaxCalls)

SpecThrow == InitDispatch /\ [][NextThrow]_vars

\* Dispatches over listeners that register a further listener on their node.
NextAdd == EventNext(Adders, {FALSE}, {FALSE}, AddRegs, AddCalls)

SpecAdd == InitDispatch /\ [][NextAdd]_vars

\* Dispatches that may hand an event to dispatchEvent a second time.
NextReuse ==
    EventNext({"noop", "stopPropagation", "stopImmediatePropagation", "preventDefault"},
              {FALSE}, BOOLEAN, ReuseRegs, ReuseCalls)

SpecReuse == InitDispatch /\ [][NextReuse]_vars

\* One dispatch over listeners some of which dispatch an event from their body.
\* A listener of Dispatchers is registered with once: it is off its node when the
\* dispatch it starts reaches the node.
NextNested ==
    \/ /\ events = <<>>
       /\ RegistrationsMade < NestedRegs
       /\ \E this \in Nodes, listener \in Dispatchers \cup {"noop", "stopPropagation"},
             capture \in BOOLEAN, once \in BOOLEAN :
              /\ listener \in Dispatchers => once
              /\ AddEventListener(this, "click", listener, capture, once)
    \/ /\ events = <<>>
       /\ \E bubbles \in BOOLEAN : NewEvent("click", bubbles, FALSE)
    \/ /\ returned = <<>>
       /\ \E this \in Nodes, e \in 1..Len(events) : DispatchEvent(this, e)
    \/ InvokeListener
    \/ ListenerReturns

SpecNested == InitDispatch /\ [][NextNested]_vars

\* Dispatches over listeners that remove a registration of their node.
NextUnlisten ==
    EventNext(Removers \cup {"noop", "stopImmediatePropagation"}, {FALSE}, {FALSE},
              UnlistenRegs, UnlistenCalls)

SpecUnlisten == InitDispatch /\ [][NextUnlisten]_vars

\* One dispatch over listeners that detach their node or move the target.
NextMutate == EventNext(Mutators \cup {"noop"}, {FALSE}, {FALSE}, MutateRegs, MaxCalls)

SpecMutate == InitDispatch /\ [][NextMutate]_vars

\* The heap after building, with appendChild, either the tree in which the other
\* nodes are the children of node 1, or the chain 1 <- 2 <- ... with the last node
\* left out of it, a tree of its own.
InitScope ==
    /\ nodeType = [n \in Nodes |-> ELEMENT_NODE]
    /\ \/ /\ parentNode = [n \in Nodes |-> IF n = 1 THEN Null ELSE 1]
          /\ childNodes = [n \in Nodes |-> IF n = 1 THEN [j \in 1..NumNodes - 1 |-> j + 1]
                                           ELSE <<>>]
       \/ /\ parentNode = [n \in Nodes |-> IF n \in {1, NumNodes} THEN Null ELSE n - 1]
          /\ childNodes = [n \in Nodes |-> IF n >= NumNodes - 1 THEN <<>> ELSE <<n + 1>>]
    /\ data = [n \in Nodes |-> ""]
    /\ elem = [n \in Nodes |-> NewElement("div")]
    /\ last = [op |-> "appendChild", err |-> NoError, ret |-> NumNodes - 1]
    /\ InitEvents

ScopeTypes == {"click", "key"}

InheritTypes == {"click", "constructor", "toString"}

\* One dispatch over registrations asked for under type strings of which some
\* name properties of Object.prototype.
NextInherit ==
    \/ /\ events = <<>>
       /\ RegistrationsMade < InheritRegs
       /\ \E this \in Nodes, type \in InheritTypes, listener \in {"noop", "stopPropagation"},
             capture \in BOOLEAN :
              AddEventListener(this, type, listener, capture, FALSE)
    \/ /\ events = <<>>
       /\ \E type \in InheritTypes, bubbles \in BOOLEAN : NewEvent(type, bubbles, FALSE)
    \/ /\ CallsMade < InheritCalls
       /\ \E this \in Nodes, e \in 1..Len(events) : DispatchEvent(this, e)
    \/ InvokeListener

SpecInherit == InitDispatch /\ [][NextInherit]_vars

\* One dispatch over registrations made for two types on the nodes of the forest.
NextScope ==
    \/ /\ events = <<>>
       /\ RegistrationsMade < ScopeRegs
       /\ \E this \in Nodes, type \in ScopeTypes, listener \in {"noop", "preventDefault"},
             capture \in BOOLEAN, once \in BOOLEAN :
              AddEventListener(this, type, listener, capture, once)
    \/ /\ events = <<>>
       /\ \E type \in ScopeTypes, bubbles \in BOOLEAN : NewEvent(type, bubbles, TRUE)
    \/ /\ CallsMade < MaxCalls
       /\ \E this \in Nodes, e \in 1..Len(events) : DispatchEvent(this, e)
    \/ InvokeListener

SpecScope == InitScope /\ [][NextScope]_vars

\* The program registers listeners and removes registrations, in any order.
NextRemove ==
    \/ /\ RegistrationsMade < RemoveRegs
       /\ \E this \in Nodes, type \in Types, listener \in {"noop", "preventDefault"},
             capture \in BOOLEAN : AddEventListener(this, type, listener, capture, FALSE)
    \/ /\ Len(removals) < MaxRemovals
       /\ \E this \in Nodes, type \in Types, listener \in {"noop", "preventDefault"},
             capture \in BOOLEAN : RemoveEventListener(this, type, listener, capture)

SpecRemove == InitDispatch /\ [][NextRemove]_vars


\* ----------------------------------------------------------- event claims
\* What the claims say of a dispatch is stated over the registrations made
\* (registered) and the tree, not over the frames of the call.
Reverse(s) == [j \in 1..Len(s) |-> s[Len(s) + 1 - j]]

RECURSIVE ProperAncestorsUp(_)
ProperAncestorsUp(n) ==
    IF parentNode[n] = Null THEN <<>>
    ELSE <<parentNode[n]>> \o ProperAncestorsUp(parentNode[n])

\* <<node, listener, capture, once>> for an invocation and for a registration.
Invoked(x) == <<x.this, x.listener, x.capture, x.once>>

Made(n, reg) == <<n, reg.listener, reg.capture, reg.once>>

InCall(c) == LET Of(x) == x.call = c IN SelectSeq(log, Of)

InvocationsOf(entries) == [j \in 1..Len(entries) |-> Invoked(entries[j])]

\* The registrations made on n for the type, those with the capture flag in flags.
RegistrationsOn(n, type, flags) ==
    LET Of(reg) == reg.type = type /\ reg.capture \in flags
        regs == SelectSeq(registered[n], Of)
    IN [j \in 1..Len(regs) |-> Made(n, regs[j])]

RECURSIVE Along(_, _, _)
Along(nodes, type, flags) ==
    IF nodes = <<>> THEN <<>>
    ELSE RegistrationsOn(Head(nodes), type, flags) \o Along(Tail(nodes), type, flags)

ExpectedOrder(target, type) ==
    Along(Reverse(ProperAncestorsUp(target)), type, {TRUE})
        \o RegistrationsOn(target, type, BOOLEAN)
        \o Along(ProperAncestorsUp(target), type, {FALSE})

\* C1: a finished dispatch of a bubbling event in which no listener stopped
\* propagation has invoked the capture registrations of the proper ancestors from
\* the root down, then the target's registrations, then the non-capture
\* registrations of the proper ancestors from the parent up; no capture
\* registration runs in the bubble pass and no non-capture one in the capture pass.
C1_DispatchOrder ==
    /\ \A j \in 1..Len(returned) :
          LET r == returned[j] IN
          (r.final.bubbles /\ ~r.final.propagationStopped)
              => InvocationsOf(InCall(r.call)) = ExpectedOrder(r.target, r.final.type)
    /\ \A j \in 1..Len(log) :
          /\ log[j].eventPhase = CAPTURING_PHASE => log[j].capture
          /\ log[j].eventPhase = BUBBLING_PHASE => ~log[j].capture

\* C1's case: a finished bubbling dispatch on the deepest node, never stopped,
\* with invocations in the capture, the target and the bubble phase.
C1_Witness ==
    \E j \in 1..Len(returned) :
        /\ returned[j].target = NumNodes
        /\ returned[j].final.bubbles /\ ~returned[j].final.propagationStopped
        /\ \A ph \in {CAPTURING_PHASE, AT_TARGET, BUBBLING_PHASE} :
              \E k \in 1..Len(log) : log[k].call = returned[j].call /\ log[k].eventPhase = ph

OnNode(entries, n) == LET Of(x) == x.this = n IN SelectSeq(entries, Of)

\* C2: when the target phase of a finished dispatch ran and no listener stopped
\* propagation immediately, the invocations on the target are all the target's
\* registrations for the type, capture and non-capture alike, in registration
\* order, and each saw eventPhase = AT_TARGET.
C2_TargetPhaseAll ==
    \A j \in 1..Len(returned) :
        LET r == returned[j]
            onTarget == OnNode(InCall(r.call), r.target)
        IN (r.final.eventPhase \in {AT_TARGET, BUBBLING_PHASE}
                /\ ~r.final.immediatePropagationStopped)
            => /\ InvocationsOf(onTarget) = RegistrationsOn(r.target, r.final.type, BOOLEAN)
               /\ \A k \in 1..Len(onTarget) : onTarget[k].eventPhase = AT_TARGET

\* C2's case: on the target a non-capture registration ran right before a
\* capture registration, both at AT_TARGET, in a finished dispatch.
C2_Witness ==
    \E j \in 1..Len(returned), k \in 1..Len(log) :
        /\ k < Len(log)
        /\ log[k].call = returned[j].call /\ log[k + 1].call = returned[j].call
        /\ log[k].this = returned[j].target /\ log[k + 1].this = returned[j].target
        /\ ~log[k].capture /\ log[k + 1].capture
        /\ log[k].eventPhase = AT_TARGET /\ log[k + 1].eventPhase = AT_TARGET
        /\ ~returned[j].final.immediatePropagationStopped

PassFlags(phase) ==
    CASE phase = CAPTURING_PHASE -> {TRUE}
      [] phase = AT_TARGET -> BOOLEAN
      [] phase = BUBBLING_PHASE -> {FALSE}

InPass(entries, n, phase) ==
    LET Of(x) == x.this = n /\ x.eventPhase = phase IN SelectSeq(entries, Of)

\* C3: after a listener on node N has called stopPropagation(), every later
\* invocation of the dispatch is on N and in the same pass; and unless a listener
\* stops propagation immediately, that pass still invokes all the matching
\* registrations of N.
C3_StopPropagation ==
    /\ \A j \in 1..Len(log), k \in 1..Len(log) :
          (j < k /\ log[j].call = log[k].call /\ log[j].listener = "stopPropagation")
              => log[k].this = log[j].this /\ log[k].eventPhase = log[j].eventPhase
    /\ \A j \in 1..Len(returned), k \in 1..Len(log) :
          LET r == returned[j] IN
          (log[k].call = r.call /\ log[k].listener = "stopPropagation"
                /\ ~r.final.immediatePropagationStopped)
              => InvocationsOf(InPass(InCall(r.call), log[k].this, log[k].eventPhase))
                   = RegistrationsOn(log[k].this, r.final.type, PassFlags(log[k].eventPhase))

\* C3's case: in a finished dispatch on the deepest node a capture listener on
\* the root called stopPropagation(), the root's next capture listener still
\* ran, and the target's registration was never invoked.
C3_Witness ==
    \E j \in 1..Len(returned), k \in 1..Len(log) :
        /\ returned[j].target = NumNodes
        /\ log[k].call = returned[j].call
        /\ log[k].listener = "stopPropagation"
        /\ log[k].this = 1 /\ log[k].eventPhase = CAPTURING_PHASE
        /\ k < Len(log) /\ log[k + 1].this = 1
        /\ registered[NumNodes] # <<>>
        /\ \A m \in 1..Len(log) : log[m].this # NumNodes

\* C4: after a listener has called stopImmediatePropagation() no listener is
\* invoked in that dispatch any more.
C4_StopImmediate ==
    \A j \in 1..Len(log), k \in 1..Len(log) :
        (j < k /\ log[j].call = log[k].call)
            => log[j].listener # "stopImmediatePropagation"

\* C4's case: a finished dispatch whose first listener on the target called
\* stopImmediatePropagation() while the target held a further registration and
\* the parent a non-capture one, of a bubbling event.
C4_Witness ==
    \E j \in 1..Len(returned), k \in 1..Len(log) :
        LET r == returned[j] IN
        /\ log[k].call = r.call
        /\ log[k].listener = "stopImmediatePropagation"
        /\ log[k].this = r.target /\ r.target # 1
        /\ r.final.bubbles
        /\ Len(registered[r.target]) >= 2
        /\ registered[r.target][1].listener = "stopImmediatePropagation"
        /\ \E m \in 1..Len(registered[parentNode[r.target]]) :
              ~registered[parentNode[r.target]][m].capture

\* The registrations made on n that equal reg, and the invocations of them.
TimesRegistered(n, reg) == Cardinality({m \in 1..Len(registered[n]) : registered[n][m] = reg})

TimesInvoked(n, reg, calls) ==
    Cardinality({m \in 1..Len(log) :
                    /\ log[m].call \in calls
                    /\ Invoked(log[m]) = Made(n, reg)
                    /\ events[log[m].event].type = reg.type})

StillRegistered(n, reg) ==
    \E m \in 1..Len(ListenersOf(listeners, n, reg.type)) :
        ListenersOf(listeners, n, reg.type)[m]
            = [listener |-> reg.listener, capture |-> reg.capture, once |-> reg.once]

\* C5: after two sequential dispatches on node n, the first of which ran its
\* target phase without an immediate stop, every once registration of n was
\* invoked once per registration, in the first dispatch, and is no longer in
\* n's registry.
C5_OnceFiresOnce ==
    \A n \in Nodes :
        (/\ Len(returned) >= 2
         /\ returned[1].target = n /\ returned[2].target = n
         /\ returned[1].final.eventPhase \in {AT_TARGET, BUBBLING_PHASE}
         /\ ~returned[1].final.immediatePropagationStopped)
        => \A m \in 1..Len(registered[n]) :
              LET reg == registered[n][m] IN
              reg.once => /\ TimesInvoked(n, reg, {returned[1].call}) = TimesRegistered(n, reg)
                          /\ TimesInvoked(n, reg, 1..CallsMade) = TimesRegistered(n, reg)
                          /\ ~StillRegistered(n, reg)

\* C5's case: two finished dispatches on a node that holds a once registration,
\* the first with its target phase run and no immediate stop.
C5_Witness ==
    \E n \in Nodes :
        /\ Len(returned) = 2
        /\ returned[1].target = n /\ returned[2].target = n
        /\ returned[1].final.eventPhase \in {AT_TARGET, BUBBLING_PHASE}
        /\ ~returned[1].final.immediatePropagationStopped
        /\ \E m \in 1..Len(registered[n]) : registered[n][m].once

\* C6: dispatchEvent returns false exactly when the event is defaultPrevented as
\* the dispatch ends, which is when the event is cancelable and a listener of
\* this or an earlier dispatch of it called preventDefault(); an event that is
\* not cancelable is never defaultPrevented and its dispatch returns true.
C6_ReturnValue ==
    /\ \A j \in 1..Len(returned) :
          LET r == returned[j]
              prevented == \E k \in 1..Len(log) :
                              /\ log[k].event = r.event /\ log[k].call <= r.call
                              /\ log[k].listener = "preventDefault"
          IN /\ r.value = ~r.final.defaultPrevented
             /\ r.value = ~(r.final.cancelable /\ prevented)
    /\ \A e \in 1..Len(events) : ~events[e].cancelable => ~events[e].defaultPrevented

\* C6's case: a dispatch of a non-cancelable event returned true although two
\* of its listeners called preventDefault().
C6_Witness ==
    \E j \in 1..Len(returned) :
        /\ ~returned[j].final.cancelable
        /\ returned[j].value = TRUE
        /\ Cardinality({k \in 1..Len(log) : /\ log[k].call = returned[j].call
                                            /\ log[k].listener = "preventDefault"}) >= 2

\* C14: when listeners throw, no exception leaves dispatchEvent and every one is
\* reported; the call returns false exactly when the event is cancelable and a
\* listener called preventDefault() before it threw; a dispatch of a bubbling
\* event that no listener stopped invokes every registration of the capture,
\* target and bubble passes in order; after a listener that called
\* stopPropagation() before it threw only the rest of that node's pass runs, and
\* runs in full unless stopped immediately; after one that called
\* stopImmediatePropagation() nothing runs.
C14_ThrowIsolated ==
    /\ \A j \in 1..Len(log) : Throws(log[j].listener) => log[j].reported
    /\ \A j \in 1..Len(returned) :
          LET r == returned[j]
              prevented == \E k \in 1..Len(log) :
                              /\ log[k].event = r.event /\ log[k].call <= r.call
                              /\ log[k].listener = "preventDefaultThenThrow"
          IN /\ ~r.threw
             /\ r.value = ~(r.final.cancelable /\ prevented)
             /\ (r.final.bubbles /\ ~r.final.propagationStopped)
                   => InvocationsOf(InCall(r.call)) = ExpectedOrder(r.target, r.final.type)
             /\ \A k \in 1..Len(log) :
                   (/\ log[k].call = r.call
                    /\ log[k].listener = "stopPropagationThenThrow"
                    /\ ~r.final.immediatePropagationStopped)
                   => InvocationsOf(InPass(InCall(r.call), log[k].this, log[k].eventPhase))
                        = RegistrationsOn(log[k].this, r.final.type,
                                          PassFlags(log[k].eventPhase))
    /\ \A j \in 1..Len(log), k \in 1..Len(log) :
          (j < k /\ log[j].call = log[k].call) =>
              /\ log[j].listener # "stopImmediatePropagationThenThrow"
              /\ log[j].listener = "stopPropagationThenThrow"
                    => log[k].this = log[j].this /\ log[k].eventPhase = log[j].eventPhase

\* C14's case: a finished dispatch on the deepest node whose first listener, a
\* capture listener on the root, threw, and which went on to invoke a listener on
\* the target and one in the bubble pass, and returned false after a listener
\* that called preventDefault() and threw.
C14_Witness ==
    \E j \in 1..Len(returned) :
        LET r == returned[j]
            calls == InCall(r.call)
        IN /\ r.target = NumNodes /\ r.value = FALSE
           /\ Len(calls) = 3
           /\ calls[1].this = 1 /\ calls[1].eventPhase = CAPTURING_PHASE
           /\ Throws(calls[1].listener) /\ calls[1].reported
           /\ calls[2].this = NumNodes
           /\ calls[3].eventPhase = BUBBLING_PHASE

\* C15: a dispatch of an event with bubbles = false never sets eventPhase to
\* BUBBLING and invokes no non-capture registration of a proper ancestor; when no
\* listener stops propagation it invokes the capture registrations of the proper
\* ancestors from the root down and then all the target's registrations, and
\* nothing else.
C15_NoBubble ==
    /\ \A e \in 1..Len(events) : ~events[e].bubbles => events[e].eventPhase # BUBBLING_PHASE
    /\ \A k \in 1..Len(log) :
          ~events[log[k].event].bubbles
              => /\ log[k].eventPhase # BUBBLING_PHASE
                 /\ log[k].this # log[k].target => log[k].capture
    /\ \A j \in 1..Len(returned) :
          LET r == returned[j] IN
          (~r.final.bubbles /\ ~r.final.propagationStopped)
              => InvocationsOf(InCall(r.call))
                   = Along(Reverse(ProperAncestorsUp(r.target)), r.final.type, {TRUE})
                       \o RegistrationsOn(r.target, r.final.type, BOOLEAN)

\* C15's case: a finished, never stopped dispatch of a non-bubbling event on the
\* deepest node, whose parent holds a non-capture registration, that invoked a
\* capture listener on the root and a listener on the target.
C15_Witness ==
    \E j \in 1..Len(returned) :
        LET r == returned[j]
            calls == InCall(r.call)
        IN /\ r.target = NumNodes
           /\ ~r.final.bubbles /\ ~r.final.propagationStopped
           /\ \E m \in 1..Len(registered[parentNode[r.target]]) :
                 ~registered[parentNode[r.target]][m].capture
           /\ Len(calls) = 2
           /\ calls[1].this = 1 /\ calls[1].capture
           /\ calls[2].this = r.target

\* The passes a dispatch on target makes over node n: the phases in which n is
\* the current target.
PassesOver(n, target, bubbles) ==
    IF n = target THEN {AT_TARGET}
    ELSE IF n \in Range(ProperAncestorsUp(target))
         THEN {CAPTURING_PHASE} \cup (IF bubbles THEN {BUBBLING_PHASE} ELSE {})
         ELSE {}

\* The registrations with capture flag cf that listeners running on n have added
\* before the pass of phase ph over n in call c began.
AddedBefore(n, cf, c, ph) ==
    {k \in 1..Len(log) :
        /\ log[k].this = n /\ log[k].listener \in Adders
        /\ AddedCapture(log[k].listener) = cf
        /\ log[k].call < c \/ (log[k].call = c /\ log[k].eventPhase < ph)}

\* The invocations, in the pass of phase ph over n in call c, of registrations
\* that listeners have added.
AddedInvoked(n, cf, c, ph) ==
    {k \in 1..Len(log) :
        /\ log[k].this = n /\ log[k].listener = "noop" /\ log[k].capture = cf
        /\ log[k].call = c /\ log[k].eventPhase = ph}

\* C16: in a finished dispatch, each pass over a node invokes the registrations
\* that listeners on that node added in earlier passes and dispatches, once each,
\* and none of those added during the pass itself.
C16_AddedNotInCurrentPass ==
    \A j \in 1..Len(returned), n \in Nodes :
        LET r == returned[j] IN
        \A ph \in PassesOver(n, r.target, r.final.bubbles) :
        \A cf \in PassFlags(ph) :
            Cardinality(AddedInvoked(n, cf, r.call, ph))
                = Cardinality(AddedBefore(n, cf, r.call, ph))

\* C16's case: in the capture pass over the root a listener added a non-capture
\* registration, which was not invoked in that pass, was invoked in the bubble
\* pass over the root, and again in the next dispatch.
C16_Witness ==
    /\ Len(returned) = 2
    /\ \E a, b, c \in 1..Len(log) :
          /\ a < b /\ b < c
          /\ log[a].this = 1 /\ log[a].listener = "addBubble"
          /\ log[a].eventPhase = CAPTURING_PHASE /\ log[a].call = 1
          /\ log[b].this = 1 /\ log[b].listener = "noop"
          /\ log[b].eventPhase = BUBBLING_PHASE /\ log[b].call = 1
          /\ log[c].this = 1 /\ log[c].listener = "noop" /\ log[c].call = 2
          /\ \A k \in 1..Len(log) :
                (log[k].call = 1 /\ log[k].eventPhase = CAPTURING_PHASE)
                    => log[k].listener # "noop"

\* The live registrations of n for the type, as <<node, listener, capture, once>>.
LiveOn(n, type) ==
    LET live == ListenersOf(listeners, n, type)
    IN [j \in 1..Len(live) |-> <<n, live[j].listener, live[j].capture, live[j].once>>]

NotOnce(s) == LET Keep(x) == ~x[4] IN SelectSeq(s, Keep)

\* C17: the invocation of once-registrations removes no other registration: the
\* registrations made with once = false, which the program never removes here,
\* are all still in the node's registry, in their order.
C17_OnceRemovesOnlyItself ==
    \A n \in Nodes, type \in Types :
        NotOnce(LiveOn(n, type)) = NotOnce(RegistrationsOn(n, type, BOOLEAN))

\* C18: addEventListener appends whatever the registry holds: the registry of a
\* node is the sequence of the registrations made on it, repetitions included;
\* and a finished dispatch that no listener stopped has invoked each registration
\* of its target as many times as it was made.
C18_NoDeduplication ==
    /\ \A n \in Nodes, type \in Types : LiveOn(n, type) = RegistrationsOn(n, type, BOOLEAN)
    /\ \A j \in 1..Len(returned) :
          LET r == returned[j] IN
          ~r.final.propagationStopped =>
              \A m \in 1..Len(registered[r.target]) :
                  TimesInvoked(r.target, registered[r.target][m], {r.call})
                      = TimesRegistered(r.target, registered[r.target][m])

\* C18's case: a finished dispatch on a node on which the same listener was
\* registered twice with the same capture flag, both registrations in the
\* registry, and the listener invoked twice on that node.
C18_Witness ==
    \E j \in 1..Len(returned) :
        LET r == returned[j]
            regs == registered[r.target]
            live == ListenersOf(listeners, r.target, r.final.type)
        IN /\ Len(regs) = 2 /\ regs[1] = regs[2]
           /\ Len(live) = 2 /\ live[1] = live[2]
           /\ Len(OnNode(InCall(r.call), r.target)) = 2

RECURSIVE SameTree(_, _, _)
SameTree(h, a, b) ==
    /\ h.nodeType[a] = h.nodeType[b]
    /\ h.data[a] = h.data[b]
    /\ h.elem[a] = h.elem[b]
    /\ Len(h.c[a]) = Len(h.c[b])
    /\ \A k \in 1..Len(h.c[a]) :
          /\ k <= Len(h.c[b])
          /\ h.p[h.c[b][k]] = b
          /\ SameTree(h, h.c[a][k], h.c[b][k])

\* C20: node.cloneNode(true) returns the root of a subtree made of new nodes, with
\* no parent, that has the shape, node kinds, text data, tag names and attributes
\* of the subtree of node; every node that existed before the call is as it was;
\* and setting the text data of a node of the clone changes no such node.
C20_CloneIndependent ==
    \A node \in Cells(Heap) \ Free(Heap) :
        Cardinality(Free(Heap)) >= Cardinality(Subtree(Heap, node)) =>
            LET r == cloneNode(Heap, node)
                old == Cells(Heap) \ Free(Heap)
            IN /\ r.err = NoError
               /\ r.ret \in Free(Heap)
               /\ r.h.p[r.ret] = Null
               /\ Subtree(r.h, r.ret) \subseteq Free(Heap)
               /\ SameTree(r.h, node, r.ret)
               /\ \A n \in old :
                     /\ r.h.nodeType[n] = nodeType[n] /\ r.h.p[n] = parentNode[n]
                     /\ r.h.c[n] = childNodes[n] /\ r.h.data[n] = data[n]
                     /\ r.h.elem[n] = elem[n]
               /\ \A t \in Subtree(r.h, r.ret), value \in TextValues \cup {"y"} :
                     r.h.nodeType[t] = TEXT_NODE =>
                         \A n \in old : [r.h.data EXCEPT ![t] = value][n] = data[n]

\* The nodes reachable from the nodes of S along childNodes edges, S included.
RECURSIVE ReachableFrom(_)
ReachableFrom(S) ==
    LET S1 == S \cup UNION {Range(childNodes[n]) : n \in S}
    IN IF S1 = S THEN S ELSE ReachableFrom(S1)

\* C21: a.contains(b) returns a boolean, true exactly when b is a or is reachable
\* from a along childNodes edges.
C21_Contains ==
    \A a, b \in DOMAIN nodeType :
        LET r == contains(Tree, a, b)
        IN r.err = NoError /\ r.ret = (b \in ReachableFrom({a}))

\* The elements below n in document order: each child that is an element, followed
\* by the elements below it.
RECURSIVE ElementsBelow(_)
ElementsBelow(n) ==
    LET RECURSIVE From(_)
        From(k) == IF k > Len(childNodes[n]) THEN <<>>
                   ELSE LET child == childNodes[n][k]
                        IN (IF nodeType[child] = ELEMENT_NODE
                            THEN <<child>> \o ElementsBelow(child) ELSE <<>>)
                               \o From(k + 1)
    IN From(1)

\* What the selectors in use ask of an element.
Satisfies(el, selector) ==
    CASE selector = "#a" -> elem[el].id = "a"
      [] selector = ".c" -> "c" \in Range(elem[el].className)
      [] selector = "div" -> elem[el].tagName = "DIV"
      [] selector = "p" -> elem[el].tagName = "P"

\* C22: querySelectorAll returns the elements below the receiver that satisfy the
\* selector, in document order, none twice; querySelector returns the first of
\* them, or null when there is none.
C22_QuerySelectorAll ==
    \A this \in DOMAIN nodeType, selector \in Selectors :
        nodeType[this] = ELEMENT_NODE =>
            LET all == querySelectorAll(Heap, this, selector)
                first == querySelector(Heap, this, selector)
                Sat(el) == Satisfies(el, selector)
            IN /\ all.err = NoError /\ first.err = NoError
               /\ all.ret = SelectSeq(ElementsBelow(this), Sat)
               /\ \A n \in Range(all.ret) : Count(all.ret, n) = 1
               /\ first.ret = IF all.ret = <<>> THEN Null ELSE all.ret[1]

\* C23: on every element the attributes map and the properties agree: when the
\* id property or the "id" entry is a non-empty string the entry exists and equals
\* the property, and likewise for className and the "class" entry.
C23_AttributesMirrorProperties ==
    \A n \in DOMAIN nodeType :
        nodeType[n] = ELEMENT_NODE =>
            LET el == elem[n]
                Has(name) == name \in DOMAIN el.attributes
            IN /\ (el.id # "" \/ (Has("id") /\ el.attributes["id"] # ""))
                      => Has("id") /\ el.attributes["id"] = el.id
               /\ (el.className # <<>> \/ (Has("class") /\ el.attributes["class"] # <<>>))
                      => Has("class") /\ el.attributes["class"] = el.className

\* C24: every dispatchEvent call leaves its path loop: no call stays in the
\* loop that follows parentNode upward.
C24_DispatchReturns == \A j \in 1..Len(stack) : stack[j].pc # "path"

\* The calls that returned before call c began and were given event e.
EarlierCallsWith(e, c) ==
    {j \in 1..Len(returned) : returned[j].event = e /\ returned[j].call < c}

\* C25: dispatchEvent clears none of the flags of the event it is given. A call
\* given an event that an earlier call left with propagationStopped invokes no
\* listener; a call given an event that an earlier call left with defaultPrevented
\* returns false; and every flag an earlier call left set is set when the call
\* returns.
C25_FlagsSurviveDispatch ==
    /\ \A k \in 1..Len(log) :
           \A j \in EarlierCallsWith(log[k].event, log[k].call) :
               ~returned[j].final.propagationStopped
    /\ \A k \in 1..Len(returned) :
           \A j \in EarlierCallsWith(returned[k].event, returned[k].call) :
               LET was == returned[j].final
                   now == returned[k].final
               IN /\ was.defaultPrevented => ~returned[k].value
                  /\ was.defaultPrevented => now.defaultPrevented
                  /\ was.propagationStopped => now.propagationStopped
                  /\ was.immediatePropagationStopped => now.immediatePropagationStopped

\* A second call of dispatchEvent has returned false, given the event that the
\* first call left stopped and prevented, on a node that has a listener.
C25_Witness ==
    \E k \in 1..Len(returned) :
        /\ registered[returned[k].target] # <<>>
        /\ ~returned[k].value
        /\ InCall(returned[k].call) = <<>>
        /\ \E j \in EarlierCallsWith(returned[k].event, returned[k].call) :
               /\ returned[j].final.propagationStopped
               /\ returned[j].final.defaultPrevented

\* C26: in every state immediatePropagationStopped implies propagationStopped and
\* defaultPrevented implies cancelable on every event, and no step takes one of
\* the three flags of an event from true to false or changes its bubbles or its
\* cancelable.
C26_EventInvariants ==
    /\ [](\A e \in 1..Len(events) :
              /\ events[e].immediatePropagationStopped => events[e].propagationStopped
              /\ events[e].defaultPrevented => events[e].cancelable)
    /\ [][\A e \in 1..Len(events) :
              /\ Len(events') >= e
              /\ events[e].propagationStopped => events'[e].propagationStopped
              /\ events[e].immediatePropagationStopped
                     => events'[e].immediatePropagationStopped
              /\ events[e].defaultPrevented => events'[e].defaultPrevented
              /\ events'[e].bubbles = events[e].bubbles
              /\ events'[e].cancelable = events[e].cancelable]_vars

\* A dispatch has returned whose listeners called preventDefault and
\* stopImmediatePropagation on a cancelable event.
C26_Witness ==
    \E k \in 1..Len(returned) :
        LET ev == events[returned[k].event]
        IN /\ ev.cancelable /\ ev.defaultPrevented
           /\ ev.immediatePropagationStopped /\ ev.propagationStopped
           /\ Len(InCall(returned[k].call)) >= 2

\* The node dispatchEvent was called on in call c.
DispatchNodeOf(c) ==
    LET Ended == {j \in 1..Len(returned) : returned[j].call = c}
        Open == {j \in 1..Len(stack) : stack[j].call = c}
    IN IF Ended # {} THEN returned[CHOOSE j \in Ended : TRUE].target
       ELSE stack[CHOOSE j \in Open : TRUE].this

\* C28: at every listener invocation event.target is the node dispatchEvent was
\* called on and event.currentTarget is the node whose registry holds the
\* listener; eventPhase is AT_TARGET exactly when that node is the target, and
\* on another node, which is then a proper ancestor of the target, it is
\* CAPTURING_PHASE in the root-to-target pass and BUBBLING_PHASE in the
\* target-to-root pass.
C28_TargetCurrentTargetPhase ==
    \A k \in 1..Len(log) :
        LET x == log[k]
        IN /\ x.target = DispatchNodeOf(x.call)
           /\ x.currentTarget = x.this
           /\ (x.eventPhase = AT_TARGET) <=> (x.currentTarget = x.target)
           /\ x.this # x.target =>
                  /\ x.this \in Range(ProperAncestorsUp(x.target))
                  /\ x.pass \in {"capture", "bubble"}
                  /\ x.pass = "capture" => x.eventPhase = CAPTURING_PHASE
                  /\ x.pass = "bubble" => x.eventPhase = BUBBLING_PHASE

\* One dispatch has invoked a listener on an ancestor in the capture pass, one on
\* the target and one on an ancestor in the bubble pass.
C28_Witness ==
    \E c \in 1..Len(returned) :
        LET entries == InCall(returned[c].call)
        IN /\ Len(entries) = 3
           /\ entries[1].eventPhase = CAPTURING_PHASE
           /\ entries[2].eventPhase = AT_TARGET
           /\ entries[3].eventPhase = BUBBLING_PHASE

OwnEventNesting ==
    \A k \in 1..Len(log) :
        /\ log[k].listener # "redispatch"
        /\ log[k].call # 1 => ~log[k].once /\ log[k].listener \notin Dispatchers

\* What a dispatch on target invokes when nothing stops it.
ExpectedOrderOf(target, type, bubbles) ==
    Along(Reverse(ProperAncestorsUp(target)), type, {TRUE})
        \o RegistrationsOn(target, type, BOOLEAN)
        \o (IF bubbles THEN Along(ProperAncestorsUp(target), type, {FALSE}) ELSE <<>>)

\* The last invocation made by call c.
LastInvocationOf(c) == InCall(c)[Len(InCall(c))]

\* C29: when listeners dispatch an Event of their own from their body, (1) the
\* call they make has returned before any later listener of the outer call is
\* invoked, and a call below the top of the stack waits inside a listener;
\* (2) while the inner call runs, and when it has returned, the outer event has
\* the eventPhase, currentTarget, target and flags it had when the dispatching
\* listener was invoked; (3) the outer call, if nothing stopped it, invokes the
\* registrations of the path in the order of a dispatch without nesting.
C29_NestedDispatchIsolated ==
    OwnEventNesting =>
        /\ \A j \in 1..Len(stack) - 1 :
               stack[j].pc = "inListener" /\ stack[j].call < stack[j + 1].call
        /\ \A j, k \in 1..Len(log) :
               (j < k /\ log[j].call > log[k].call)
                   => \A m \in 1..Len(stack) : stack[m].call # log[j].call
        /\ \A j \in 1..Len(stack) :
               stack[j].pc = "inListener" =>
                   LET x == LastInvocationOf(stack[j].call)
                       ev == events[stack[j].event]
                   IN /\ ev.eventPhase = x.eventPhase
                      /\ ev.currentTarget = x.currentTarget
                      /\ ev.target = x.target
                      /\ ev.propagationStopped = x.propagationStopped
                      /\ ev.immediatePropagationStopped = x.immediatePropagationStopped
                      /\ ev.defaultPrevented = x.defaultPrevented
        /\ \A j \in 1..Len(returned) :
               LET r == returned[j] IN
               (r.call = 1 /\ ~r.final.propagationStopped)
                   => InvocationsOf(InCall(1))
                          = ExpectedOrderOf(r.target, r.final.type, r.final.bubbles)

\* The outer call has returned unstopped; a listener of it dispatched an Event of
\* its own, on which an inner listener called stopPropagation, and the outer call
\* invoked a further listener after the inner call.
C29_Witness ==
    /\ OwnEventNesting
    /\ stack = <<>>
    /\ \E j \in 1..Len(returned) :
           returned[j].call = 1 /\ ~returned[j].final.propagationStopped
    /\ \E j \in 1..Len(returned) :
           returned[j].call = 2 /\ returned[j].final.propagationStopped
    /\ \E a, b, c \in 1..Len(log) :
           /\ a < b /\ b < c
           /\ log[a].call = 1 /\ log[a].listener = "dispatchNew"
           /\ log[b].call = 2
           /\ log[c].call = 1

\* C30: over all the dispatches made, the invocations of a once registration are
\* no more than the registrations of it that were made.
C30_OnceAtMostOnce ==
    \A n \in Nodes :
        \A m \in 1..Len(registered[n]) :
            LET reg == registered[n][m]
            IN reg.once => TimesInvoked(n, reg, 1..CallsMade) <= TimesRegistered(n, reg)

\* The invocations that call c made in its pass of the given kind over node n.
InvokedInPass(c, n, pass) ==
    LET Of(x) == x.call = c /\ x.this = n /\ x.pass = pass
    IN SelectSeq(log, Of)

\* The entries of the array that the pass of the given kind is for.
ForPass(arr, pass) ==
    LET Of(entry) == pass = "target" \/ entry.capture = (pass = "capture")
    IN SelectSeq(arr, Of)

IsPrefix(a, b) == Len(a) <= Len(b) /\ a = SubSeq(b, 1, Len(a))

\* C31: the invocations of a pass over a node are, in order, the entries that
\* were in the node's array for the type as the pass began and that the pass is
\* for, each once: all of them when the call has returned with no immediate
\* stop, the first of them until then; this whatever a listener of the pass
\* removed. A registration that a listener removed is in the array of no pass
\* that begins later.
C31_RemovedStillInvokedInPass ==
    /\ \A k \in 1..Len(log) :
           LET x == log[k]
               made == InvokedInPass(x.call, x.this, x.pass)
               due == ForPass(x.snapshot, x.pass)
               ended == \E j \in 1..Len(returned) :
                            /\ returned[j].call = x.call
                            /\ ~returned[j].final.immediatePropagationStopped
           IN /\ IsPrefix([j \in 1..Len(made) |->
                              [listener |-> made[j].listener, capture |-> made[j].capture,
                               once |-> made[j].once]], due)
              /\ ended => Len(made) = Len(due)
    /\ \A j, k \in 1..Len(log) :
           (/\ j < k
            /\ log[j].listener \in Removers
            /\ log[k].this = log[j].this
            /\ <<log[k].call, log[k].pass>> # <<log[j].call, log[j].pass>>)
               => \A m \in 1..Len(log[k].snapshot) :
                      ~(/\ log[k].snapshot[m].listener = "noop"
                        /\ log[k].snapshot[m].capture = RemovedCapture(log[j].listener))

\* A listener removed a registration that was invoked after it in the same pass,
\* and a later dispatch has invoked a listener on the node.
C31_Witness ==
    \E a, b, c \in 1..Len(log) :
        /\ a < b /\ b < c
        /\ log[a].listener \in Removers
        /\ log[b].call = log[a].call /\ log[b].this = log[a].this
        /\ log[b].pass = log[a].pass
        /\ log[b].listener = "noop"
        /\ log[b].capture = RemovedCapture(log[a].listener)
        /\ log[c].call > log[a].call /\ log[c].this = log[a].this
        /\ \E j \in 1..Len(returned) : returned[j].call = log[c].call

\* The path of a dispatch on target t made in the chain that the dispatch
\* scenarios start from: 1, ..., t.
ChainPath(t) == [j \in 1..t |-> j]

\* What an unstopped dispatch on the last node of path invokes when it visits the
\* nodes of path.
ExpectedAlongPath(path, type, bubbles) ==
    LET above == SubSeq(path, 1, Len(path) - 1)
    IN Along(above, type, {TRUE})
           \o RegistrationsOn(path[Len(path)], type, BOOLEAN)
           \o (IF bubbles THEN Along(Reverse(above), type, {FALSE}) ELSE <<>>)

\* C32: a dispatch made in the chain visits the ancestors the target had when
\* dispatchEvent was called, root first in the capture pass and parent first in
\* the bubble pass, whatever its listeners do to the tree: its invocations are at
\* every moment the first of those of a dispatch along that path, and all of them
\* when it has returned.
C32_PathFixedAtStart ==
    /\ \A j \in 1..Len(stack) :
           stack[j].call = 1 =>
               IsPrefix(InvocationsOf(InCall(1)),
                        ExpectedAlongPath(ChainPath(stack[j].this),
                                          events[stack[j].event].type,
                                          events[stack[j].event].bubbles))
    /\ \A j \in 1..Len(returned) :
           returned[j].call = 1 =>
               InvocationsOf(InCall(1))
                   = ExpectedAlongPath(ChainPath(returned[j].target),
                                       returned[j].final.type, returned[j].final.bubbles)

\* A dispatch on the last node of the chain has returned; a listener of its
\* capture pass took the target's parent out of the tree or the target away from
\* its parent, and listeners were invoked after it on the target and, in the
\* bubble pass, on the node that was the target's parent.
C32_Witness ==
    /\ \E j \in 1..Len(returned) : returned[j].call = 1 /\ returned[j].target = NumNodes
    /\ NumNodes - 1 \notin Range(ProperAncestorsUp(NumNodes))
    /\ \E a, b, c \in 1..Len(log) :
           /\ a < b /\ b < c
           /\ log[a].listener \in Mutators /\ log[a].pass = "capture"
           /\ log[b].this = NumNodes /\ log[b].pass = "target"
           /\ log[c].this = NumNodes - 1 /\ log[c].pass = "bubble"

\* The entries that the registrations made on n for the type put in its array.
EntriesMade(n, type) ==
    LET Of(reg) == reg.type = type
        regs == SelectSeq(registered[n], Of)
    IN [j \in 1..Len(regs) |->
           [listener |-> regs[j].listener, capture |-> regs[j].capture,
            once |-> regs[j].once]]

\* The target and its ancestors.
InclusiveAncestors(t) == {t} \cup Range(ProperAncestorsUp(t))

\* The type of the event that call c of dispatchEvent was given.
DispatchTypeOf(c) ==
    LET Ended == {j \in 1..Len(returned) : returned[j].call = c}
        Open == {j \in 1..Len(stack) : stack[j].call = c}
    IN IF Ended # {} THEN returned[CHOOSE j \in Ended : TRUE].final.type
       ELSE events[stack[CHOOSE j \in Open : TRUE].event].type

\* C33: a dispatch of an event of type T on t invokes only registrations made for
\* T on t or on an ancestor of t; the array of a node for a type holds what the
\* registrations for it put there unless a dispatch of that type was made on the
\* node or below it.
C33_DispatchScope ==
    /\ \A k \in 1..Len(log) :
           LET n == log[k].this
           IN /\ n \in InclusiveAncestors(DispatchNodeOf(log[k].call))
              /\ \E m \in 1..Len(registered[n]) :
                     /\ registered[n][m].type = DispatchTypeOf(log[k].call)
                     /\ Made(n, registered[n][m]) = Invoked(log[k])
    /\ \A n \in Nodes, ty \in ScopeTypes :
           (\A c \in 1..CallsMade :
                n \notin InclusiveAncestors(DispatchNodeOf(c)) \/ ty # DispatchTypeOf(c))
               => ListenersOf(listeners, n, ty) = EntriesMade(n, ty)

\* A dispatch has returned that invoked a once registration on its path, while a
\* once registration for the same listener and type is on a node off the path and
\* one for the other type is on a node of the path.
C33_Witness ==
    \E j \in 1..Len(returned) :
        LET r == returned[j]
        IN /\ \E k \in 1..Len(log) : log[k].call = r.call /\ log[k].once
           /\ \/ \E n \in Nodes \ InclusiveAncestors(r.target) :
                     \E m \in 1..Len(registered[n]) :
                         registered[n][m].type = r.final.type /\ registered[n][m].once
              \/ \E n \in InclusiveAncestors(r.target) :
                     \E m \in 1..Len(registered[n]) :
                         registered[n][m].type # r.final.type /\ registered[n][m].once

\* The entries of n's array for reg's type that equal reg.
TimesInArray(n, reg) ==
    LET arr == ListenersOf(listeners, n, reg.type)
    IN Cardinality({m \in 1..Len(arr) :
                       arr[m] = [listener |-> reg.listener, capture |-> reg.capture,
                                 once |-> reg.once]})

\* C34: a once registration leaves its node's array only by being invoked: the
\* array holds as many entries of it as were registered and not yet invoked, so
\* one that a dispatch did not invoke is there for the next dispatch.
C34_UninvokedOnceStays ==
    \A n \in Nodes :
        \A m \in 1..Len(registered[n]) :
            LET reg == registered[n][m]
            IN reg.once =>
                   TimesInArray(n, reg)
                       = TimesRegistered(n, reg) - TimesInvoked(n, reg, 1..CallsMade)

\* The subtree rooted at b is made of nodes of New, each child pointing to its
\* parent, and has the shape and the node kinds of the subtree rooted at a.
RECURSIVE ClonedFrom(_, _, _, _)
ClonedFrom(h, a, b, New) ==
    /\ b \in New
    /\ h.nodeType[b] = h.nodeType[a]
    /\ Len(h.c[b]) = Len(h.c[a])
    /\ \A k \in 1..Len(h.c[a]) :
          /\ k <= Len(h.c[b])
          /\ h.p[h.c[b][k]] = b
          /\ ClonedFrom(h, h.c[a][k], h.c[b][k], New)

\* C35: cloneNode on a node, deep or not, returns a new node with no parent and
\* the nodeType of the node; the shallow clone has no children, and the children
\* of the deep clone are clones of the node's children, in their order.
C35_CloneNodeShape ==
    \A node \in Cells(Heap) \ Free(Heap) :
        /\ Free(Heap) # {} =>
               LET r == cloneNodeShallow(Heap, node)
               IN /\ r.err = NoError
                  /\ r.ret \in Free(Heap)
                  /\ r.h.p[r.ret] = Null
                  /\ r.h.nodeType[r.ret] = nodeType[node]
                  /\ r.h.c[r.ret] = <<>>
        /\ Cardinality(Free(Heap)) >= Cardinality(Subtree(Heap, node)) =>
               LET r == cloneNode(Heap, node)
               IN /\ r.err = NoError
                  /\ r.h.p[r.ret] = Null
                  /\ ClonedFrom(r.h, node, r.ret, Free(Heap))

\* C36: the setter of textContent on a node that is not a text node returns
\* without an error; the node is left with no children when the value is empty,
\* and with the new text node as its one child when it is not; and every node
\* that was in its childNodes has parentNode null.
C36_SetTextContentPost ==
    \A this \in Constructed, value \in TextValues :
        (nodeType[this] # TEXT_NODE /\ (value # "" => Constructed # Nodes)) =>
            LET text == IF value = "" THEN Null ELSE Fresh
                r == setTextContent(Tree, this, value, text)
            IN /\ r.err = NoError
               /\ r.t.c[this] = IF value = "" THEN <<>> ELSE <<text>>
               /\ value # "" => r.t.p[text] = this
               /\ \A n \in Range(childNodes[this]) : r.t.p[n] = Null

\* The setter has run; where two nodes were the children of one, a text node made
\* by the setter and an element, all nodes are without parent and without
\* children after the setter was given the empty string.
C36_Witness ==
    /\ last.op = "textContent=" /\ last.err = NoError
    /\ \E n \in Constructed : nodeType[n] = TEXT_NODE
    /\ \A n \in Constructed : parentNode[n] = Null /\ childNodes[n] = <<>>

\* C37: for a node c with parent P, c is in P.childNodes, and nextSibling and
\* previousSibling of c are the entries right after and right before it there,
\* null at the ends; y = nextSibling(x) implies x = previousSibling(y); firstChild
\* and lastChild of P are the first and the last entry of P.childNodes, null when
\* it is empty.
C37_SiblingsAgree ==
    /\ \A c \in Constructed :
           parentNode[c] # Null =>
               LET ch == childNodes[parentNode[c]]
               IN \E k \in 1..Len(ch) :
                      /\ ch[k] = c
                      /\ nextSibling(Tree, c) = IF k < Len(ch) THEN ch[k + 1] ELSE Null
                      /\ previousSibling(Tree, c) = IF k > 1 THEN ch[k - 1] ELSE Null
    /\ \A x \in Constructed :
           nextSibling(Tree, x) # Null => previousSibling(Tree, nextSibling(Tree, x)) = x
    /\ \A P \in Constructed :
           LET ch == childNodes[P]
           IN /\ firstChild(Tree, P) = IF ch = <<>> THEN Null ELSE ch[1]
              /\ lastChild(Tree, P) = IF ch = <<>> THEN Null ELSE ch[Len(ch)]

\* C38: while documentElement is null, querySelectorAll and querySelector of a
\* document return the empty sequence and null, whatever the document's children
\* are; otherwise a call that returns gives, for querySelectorAll, documentElement
\* if it satisfies the selector followed by the elements below it that do, in
\* document order, and for querySelector the first of these or null. No call but
\* an assignment to documentElement changes documentElement.
C38_DocumentQueries ==
    /\ [](\A this \in DOMAIN nodeType, selector \in Selectors :
              nodeType[this] = DOCUMENT_NODE =>
                  LET root == elem[this].documentElement
                      all == documentQuerySelectorAll(Heap, this, selector)
                      first == documentQuerySelector(Heap, this, selector)
                      Sat(el) == Satisfies(el, selector)
                  IN /\ root = Null => /\ all = [err |-> NoError, ret |-> <<>>]
                                       /\ first = [err |-> NoError, ret |-> Null]
                     /\ (root # Null /\ all.err = NoError) =>
                            /\ all.ret = SelectSeq(<<root>> \o ElementsBelow(root), Sat)
                            /\ first.err = NoError
                            /\ first.ret = IF all.ret = <<>> THEN Null ELSE all.ret[1]
                     /\ (root # Null /\ first.err = NoError /\ all.err # NoError) =>
                            Sat(root) /\ first.ret = root)
    /\ [][\A this \in DOMAIN nodeType :
              (nodeType[this] = DOCUMENT_NODE
                   /\ elem'[this].documentElement # elem[this].documentElement)
                  => last'.op = "documentElement="]_vars

\* The document has been queried for a selector that a child of it satisfies and,
\* its documentElement being null, has returned the empty sequence.
C38_Witness ==
    /\ last.op = "document.querySelectorAll" /\ last.err = NoError /\ last.ret = <<>>
    /\ \E this \in DOMAIN nodeType :
           /\ nodeType[this] = DOCUMENT_NODE
           /\ elem[this].documentElement = Null
           /\ \E child \in Range(childNodes[this]) :
                  \A selector \in {"p", ".c"} : Satisfies(child, selector)

\* C39: every call of addEventListener returns without an error and makes the
\* array of its type on its node one registration longer, whatever the type
\* string; a dispatch that reaches a node registered for its type does not throw
\* and invokes a listener.
C39_AddEventListenerAnyType ==
    /\ [](last.op = "addEventListener" => last.err = NoError)
    /\ [][\A this \in Nodes :
              registered'[this] # registered[this] =>
                  LET made == registered'[this][Len(registered'[this])]
                  IN /\ HasListeners(listeners', this, made.type)
                     /\ listeners'[this][made.type]
                            = Append(ListenersOf(listeners, this, made.type),
                                     [listener |-> made.listener,
                                      capture |-> made.capture, once |-> made.once])]_vars
    /\ [](\A k \in DOMAIN returned :
              (\E j \in DOMAIN registered[returned[k].target] :
                   registered[returned[k].target][j].type = returned[k].final.type)
                  => /\ ~returned[k].threw
                     /\ \E j \in DOMAIN log : log[j].call = returned[k].call)

====
